---------------------------- MODULE Spec2Model ----------------------------
(***************************************************************************)
(* Inventory reconciliation for Sage X3 extracts (backend/app.py,          *)
(* backend/services/file_processor.py, lotecart_processor.py).             *)
(*                                                                         *)
(* Quantities are fixed-point integers counted in hundredths (0.01), so    *)
(* the residual tolerance 0.01 of distribute_discrepancies is 1 and the    *)
(* zero epsilon 1e-9 of generate_final_file separates 0 from every other   *)
(* value.  A line of the extract is the tuple of its ';'-separated fields, *)
(* field i of the code being element i+1 of the tuple.                     *)
(***************************************************************************)
EXTENDS Integers, Sequences, FiniteSets, TLC

(***************************************************************************)
(* Bounds of the model.                                                    *)
(***************************************************************************)
MaxQty == 2        \* largest theoretical quantity of a line of a file
MaxCount == 3      \* largest counted quantity typed in a template
MaxAdded == 2      \* rows a user adds to the completed template
MaxLoopCount == 3  \* largest counted quantity in the allocation loop
MaxLoopQty == 2    \* largest original quantity in the allocation loop

(***************************************************************************)
(* Program constants.                                                      *)
(***************************************************************************)
EXPECTED_COLS == 15      \* len(SAGE_COLUMN_NAMES_ORDERED); the regenerator's 15
COL_NUMERO_INVENTAIRE == 2
COL_RANG == 3
COL_QUANTITE == 5
COL_QUANTITE_REELLE == 6
COL_INDICATEUR_COMPTE == 7
COL_CODE_ARTICLE == 8
COL_EMPLACEMENT == 9
COL_NUMERO_LOT == 14
RANG_STEP == 1000        \* current_line_number += 1000
RESIDUAL_TOLERANCE == 1  \* abs(ecart_restant) > 0.01, in hundredths
NoDate == 0              \* Date_Lot None / NaT; real dates are numbers >= 1
DECIMAL_PRECISION == 6   \* self._decimal_precision

(***************************************************************************)
(* Text.  Python compares strings lexicographically; StrOrd gives the      *)
(* position of each string of the model in that order.                     *)
(***************************************************************************)
LotA == "CPKU1010225AAAA"   \* type 1, 01/02/2025
LotB == "CPKU1020125AAAA"   \* type 1, 02/01/2025: earlier date, larger text
LotC == "CPKU1010225BBBB"   \* type 1, 01/02/2025: the date of LotA, larger text
LotU == "LOT311224"         \* type 2: no date extracted
LotX == "CPKU1310225AAAA"   \* type 1, 31/02/2025: no such day, no date extracted
LOTECART == "LOTECART"

StrOrd(s) ==
    CASE s = "" -> 0
      [] s = "ART1" -> 1
      [] s = "ART2" -> 2
      [] s = LotA -> 3
      [] s = LotC -> 4
      [] s = LotB -> 5
      [] s = LotX -> 6
      [] s = "E1" -> 7
      [] s = "E2" -> 8
      [] s = "INV1" -> 9
      [] s = LotU -> 10
      [] s = LOTECART -> 11
      [] s = "A" -> 12
      [] s = "Q" -> 13
      [] OTHER -> 14

(***************************************************************************)
(* Sequences.                                                              *)
(***************************************************************************)
RECURSIVE SumSeq(_)
SumSeq(s) == IF s = <<>> THEN 0 ELSE Head(s) + SumSeq(Tail(s))

\* the indices of the TRUE elements of a sequence of booleans, ascending
TrueIdx(flags) == SelectSeq([i \in 1..Len(flags) |-> i], LAMBDA i : flags[i])

Abs(x) == IF x < 0 THEN -x ELSE x
Max(a, b) == IF a >= b THEN a ELSE b

Range(s) == {s[i] : i \in 1..Len(s)}

\* field i (0-based, as in the code) of a split line
Field(parts, i) == parts[i + 1]
SetField(parts, i, v) == [parts EXCEPT ![i + 1] = v]


(***************************************************************************)
(* Numbers as text.  A quantity field of a line is a text; the model keeps *)
(* its spelling class and the number it spells:                            *)
(*   csv    the spelling _to_csv_number produces (comma, no padding);      *)
(*   point  the spelling _format_number produces (point, no padding);      *)
(*   alt    another spelling pd.to_numeric accepts (padded, "0,010");      *)
(*   bad    a text pd.to_numeric rejects.                                  *)
(* A whole number has no decimal separator, so its point and csv           *)
(* spellings are the same text.                                            *)
(***************************************************************************)
CsvText(v) == [fmt |-> "csv", val |-> v]
PointText(v) == IF v % 100 = 0 THEN CsvText(v) ELSE [fmt |-> "point", val |-> v]
AltText(v) == [fmt |-> "alt", val |-> v]
BadText == [fmt |-> "bad", val |-> 0]

\* str.replace('.', ',') on a number text
ReplacePointByComma(t) == IF t.fmt = "point" THEN CsvText(t.val) ELSE t

\* pd.to_numeric(..., errors="coerce") after the ',' -> '.' normalisation
ToNumeric(t) == [isna |-> t.fmt = "bad", value |-> IF t.fmt = "bad" THEN 0 ELSE t.val]

\* InventoryProcessor._format_number / LotecartProcessor._format_number on a number
FormatNumber(value) == PointText(value)

\* InventoryProcessor._to_csv_number on a number, decimal_sep = ','
ToCsvNumber(value) == ReplacePointByComma(FormatNumber(value))

(***************************************************************************)
(* _format_number and _to_csv_number on the characters.  A text is a       *)
(* sequence of characters; a float is a whole number of units of           *)
(* 10^-(DECIMAL_PRECISION + 1), one decimal more than the format keeps.    *)
(***************************************************************************)
DigitChars == <<"0", "1", "2", "3", "4", "5", "6", "7", "8", "9">>
IsDigit(c) == \E d \in 1..10 : DigitChars[d] = c
DigitValue(c) == (CHOOSE d \in 1..10 : DigitChars[d] = c) - 1
AllDigits(s) == \A i \in 1..Len(s) : IsDigit(s[i])

RECURSIVE DigitsValue(_)
\* int() of a text of digits
DigitsValue(s) ==
    IF s = <<>> THEN 0
    ELSE 10 * DigitsValue(SubSeq(s, 1, Len(s) - 1)) + DigitValue(s[Len(s)])

RECURSIVE DigitsOf(_)
\* the digits of a natural number
DigitsOf(n) ==
    IF n < 10 THEN <<DigitChars[n + 1]>>
    ELSE DigitsOf(n \div 10) \o <<DigitChars[(n % 10) + 1]>>

RECURSIVE PadDigits(_, _)
\* the last width digits of a natural number, zero-padded
PadDigits(n, width) ==
    IF width = 0 THEN <<>>
    ELSE PadDigits(n \div 10, width - 1) \o <<DigitChars[(n % 10) + 1]>>

\* str.replace(old, new) for single characters
StrReplace(s, old, new) == [i \in 1..Len(s) |-> IF s[i] = old THEN new ELSE s[i]]

RECURSIVE RStrip(_, _)
\* str.rstrip(c)
RStrip(s, c) ==
    IF s # <<>> /\ s[Len(s)] = c THEN RStrip(SubSeq(s, 1, Len(s) - 1), c) ELSE s

RECURSIVE LStrip(_, _)
LStrip(s, c) == IF s # <<>> /\ s[1] = c THEN LStrip(Tail(s), c) ELSE s

\* str.strip() on texts whose only white space is the blank
Strip(s) == RStrip(LStrip(s, " "), " ")

\* the units in 1: 10^(DECIMAL_PRECISION + 1)
UnitsPerOne == 10 ^ (DECIMAL_PRECISION + 1)

\* float(s): an optional sign, digits, an optional point and digits, with at
\* least one digit; ok is FALSE where float raises ValueError
ParseFloat(s) ==
    LET neg == s # <<>> /\ s[1] = "-"
        body == IF neg THEN Tail(s) ELSE s
        dots == TrueIdx([i \in 1..Len(body) |-> body[i] = "."])
        dot == IF dots = <<>> THEN Len(body) + 1 ELSE dots[1]
        whole == SubSeq(body, 1, dot - 1)
        frac == SubSeq(body, dot + 1, Len(body))
        ok == /\ AllDigits(whole) /\ AllDigits(frac)
              /\ Len(whole) + Len(frac) > 0
              /\ Len(frac) <= DECIMAL_PRECISION + 1
        magnitude == DigitsValue(whole) * UnitsPerOne
                     + DigitsValue(frac) * 10 ^ (DECIMAL_PRECISION + 1 - Len(frac))
    IN  [ok |-> ok,
         value |-> IF ~ok THEN 0 ELSE IF neg THEN 0 - magnitude ELSE magnitude]

\* f"{f:.6f}": the nearest multiple of 10^-6 (no float of the model lies
\* half way between two of them)
FixedPoint(f) ==
    LET micro == (Abs(f) + 5) \div 10
    IN  (IF f < 0 THEN <<"-">> ELSE <<>>)
        \o DigitsOf(micro \div 10 ^ DECIMAL_PRECISION) \o <<".">>
        \o PadDigits(micro % 10 ^ DECIMAL_PRECISION, DECIMAL_PRECISION)

\* the lines of _format_number behind the conversion to float
FormatFloat(f) ==
    LET fmt == FixedPoint(f)
        stripped == IF \E i \in 1..Len(fmt) : fmt[i] = "."
                    THEN RStrip(RStrip(fmt, "0"), ".") ELSE fmt
    IN  IF stripped # <<>> THEN stripped ELSE <<"0">>

\* FormatNumberChars as its docstring has it: a text is returned as it is,
\* after the trim
FormatNumberCharsEchoesText(value) ==
    IF value.type = "str" THEN Strip(value.s) ELSE FormatFloat(value.f)

\* _format_number(value) for a str or a float
FormatNumberChars(value) ==
    IF value.type = "str"
    THEN LET s == StrReplace(Strip(value.s), ",", ".")
             parsed == ParseFloat(s)
         IN  IF parsed.ok THEN FormatFloat(parsed.value) ELSE s
    ELSE FormatFloat(value.f)

\* _to_csv_number(value, decimal_sep)
ToCsvNumberChars(value, decimal_sep) ==
    LET s == FormatNumberChars(value)
    IN  IF decimal_sep = "," THEN StrReplace(s, ".", ",") ELSE s

(***************************************************************************)
(* Lot classification (_extract_date_from_lot) on the characters of the    *)
(* lot identifier.  A date is a number that grows with the calendar:       *)
(* 372 a year, 31 a month, 1 a day, from 1 on.                             *)
(***************************************************************************)
UpperChars ==
    {"A", "B", "C", "D", "E", "F", "G", "H", "I", "J", "K", "L", "M",
     "N", "O", "P", "Q", "R", "S", "T", "U", "V", "W", "X", "Y", "Z"}
IsUpperAlnum(c) == c \in UpperChars \/ IsDigit(c)

\* the site codes of the configuration: the site of the lots of the model
PRIORITY1_SITE_CODES == {<<"C", "P", "K", "U", "1">>}

\* LOT_PATTERNS["type1"]: ^([A-Z0-9]{5})(\d{6})([A-Z0-9]{4})$
MatchType1(lot_str) ==
    /\ Len(lot_str) = 15
    /\ \A i \in 1..5 : IsUpperAlnum(lot_str[i])
    /\ \A i \in 6..11 : IsDigit(lot_str[i])
    /\ \A i \in 12..15 : IsUpperAlnum(lot_str[i])

\* LOT_PATTERNS["type2"]: ^LOT(\d{6})$
MatchType2(lot_str) ==
    /\ Len(lot_str) = 9
    /\ SubSeq(lot_str, 1, 3) = <<"L", "O", "T">>
    /\ \A i \in 4..9 : IsDigit(lot_str[i])

\* the days of a month of the years 2000 to 2099; datetime() raises
\* ValueError for a day behind them
DaysInMonth(year, month) ==
    IF month \in {4, 6, 9, 11} THEN 30
    ELSE IF month = 2 THEN (IF year % 4 = 0 THEN 29 ELSE 28)
    ELSE 31

\* datetime(year, month, day) as a number
DateNumber(year, month, day) == (year - 2000) * 372 + (month - 1) * 31 + day

\* ExtractDateFromLotChars without the test of the site code
ExtractDateFromLotCharsAnySite(lot_number) ==
    IF lot_number.na THEN [date |-> NoDate, type |-> "unknown"]
    ELSE LET lot_str == Strip(lot_number.s)
         IN  IF MatchType1(lot_str)
             THEN LET date_part == SubSeq(lot_str, 6, 11)
                      day == DigitsValue(SubSeq(date_part, 1, 2))
                      month == DigitsValue(SubSeq(date_part, 3, 4))
                      year == DigitsValue(SubSeq(date_part, 5, 6)) + 2000
                  IN  IF ~(1 <= day /\ day <= 31 /\ 1 <= month /\ month <= 12)
                      THEN [date |-> NoDate, type |-> "type1"]
                      ELSE IF day > DaysInMonth(year, month)
                      THEN [date |-> NoDate, type |-> "type1"]
                      ELSE [date |-> DateNumber(year, month, day), type |-> "type1"]
             ELSE IF MatchType2(lot_str)
             THEN [date |-> NoDate, type |-> "type2"]
             ELSE [date |-> NoDate, type |-> "unknown"]

\* _extract_date_from_lot(lot_number): lot_number is NaN (na) or the text s
ExtractDateFromLotChars(lot_number) ==
    IF lot_number.na THEN [date |-> NoDate, type |-> "unknown"]
    ELSE LET lot_str == Strip(lot_number.s)
         IN  IF MatchType1(lot_str)
             THEN LET site_code == SubSeq(lot_str, 1, 5)
                      date_part == SubSeq(lot_str, 6, 11)
                      day == DigitsValue(SubSeq(date_part, 1, 2))
                      month == DigitsValue(SubSeq(date_part, 3, 4))
                      year == DigitsValue(SubSeq(date_part, 5, 6)) + 2000
                  IN  IF site_code \notin PRIORITY1_SITE_CODES
                      THEN [date |-> NoDate, type |-> "unknown"]
                      ELSE IF ~(1 <= day /\ day <= 31 /\ 1 <= month /\ month <= 12)
                      THEN [date |-> NoDate, type |-> "type1"]
                      ELSE IF day > DaysInMonth(year, month)
                      THEN [date |-> NoDate, type |-> "type1"]
                      ELSE [date |-> DateNumber(year, month, day), type |-> "type1"]
             ELSE IF MatchType2(lot_str)
             THEN [date |-> NoDate, type |-> "type2"]
             ELSE [date |-> NoDate, type |-> "unknown"]

\* the characters of the lot identifiers of the stock lines of the model
CharsOf(text) ==
    CASE text = LotA -> <<"C", "P", "K", "U", "1", "0", "1", "0", "2", "2", "5", "A", "A", "A", "A">>
      [] text = LotB -> <<"C", "P", "K", "U", "1", "0", "2", "0", "1", "2", "5", "A", "A", "A", "A">>
      [] text = LotC -> <<"C", "P", "K", "U", "1", "0", "1", "0", "2", "2", "5", "B", "B", "B", "B">>
      [] text = LotU -> <<"L", "O", "T", "3", "1", "1", "2", "2", "4">>
      [] text = LotX -> <<"C", "P", "K", "U", "1", "3", "1", "0", "2", "2", "5", "A", "A", "A", "A">>
      [] text = LOTECART -> <<"L", "O", "T", "E", "C", "A", "R", "T">>
      [] OTHER -> <<>>

\* _extract_date_from_lot on the lot identifier of a stock line
ExtractDateFromLot(lot_number) ==
    ExtractDateFromLotChars([na |-> FALSE, s |-> CharsOf(lot_number)])

(***************************************************************************)
(* Record Parser: _process_csv_file and _process_dataframe.                *)
(***************************************************************************)
IsHeader(line) == Field(line, 0) \in {"E", "L"}
IsData(line) == Field(line, 0) = "S"

\* parts[:expected_cols]
Truncate(parts) == SubSeq(parts, 1, EXPECTED_COLS)

\* one row of the DataFrame built from a split S line
ProcessRow(parts) ==
    LET q == ToNumeric(Field(parts, COL_QUANTITE))
        lot_info == ExtractDateFromLot(Field(parts, COL_NUMERO_LOT))
    IN  [NUMERO_INVENTAIRE |-> Field(parts, COL_NUMERO_INVENTAIRE),
         CODE_ARTICLE |-> Field(parts, COL_CODE_ARTICLE),
         STATUT |-> Field(parts, 10),
         UNITE |-> Field(parts, 11),
         ZONE_PK |-> Field(parts, 13),
         EMPLACEMENT |-> Field(parts, COL_EMPLACEMENT),
         NUMERO_LOT |-> Field(parts, COL_NUMERO_LOT),
         QUANTITE |-> IF q.isna THEN 0 ELSE q.value,
         Date_Lot |-> lot_info.date,
         Type_Lot |-> lot_info.type,
         original_s_line_raw |-> parts]

\* ProcessCsvFile that leaves out an S line with too few fields: continue
ProcessCsvFileSkipsShort(file) ==
    LET S_lines == SelectSeq(SelectSeq(file, IsData),
                             LAMBDA l : Len(l) >= EXPECTED_COLS)
    IN  IF S_lines = <<>>
        THEN [success |-> FALSE, data |-> <<>>, headers |-> <<>>]
        ELSE [success |-> TRUE,
              data |-> [i \in 1..Len(S_lines) |-> ProcessRow(Truncate(S_lines[i]))],
              headers |-> SelectSeq(file, IsHeader)]

\* (success, data, headers) of _process_csv_file
ProcessCsvFile(file) ==
    LET S_lines == SelectSeq(file, IsData)
        short == \E i \in 1..Len(S_lines) : Len(S_lines[i]) < EXPECTED_COLS
    IN  IF short \/ S_lines = <<>>
        THEN [success |-> FALSE, data |-> <<>>, headers |-> <<>>]
        ELSE [success |-> TRUE,
              data |-> [i \in 1..Len(S_lines) |-> ProcessRow(Truncate(S_lines[i]))],
              headers |-> SelectSeq(file, IsHeader)]

\* number of QUANTITE texts replaced by 0 (_last_invalid_qty_count)
InvalidQtyCount(file) ==
    Len(SelectSeq(SelectSeq(file, IsData),
                  LAMBDA l : ToNumeric(Field(l, COL_QUANTITE)).isna))

(***************************************************************************)
(* Discrepancy Calculator: _calculate_discrepancies.  A completed-template *)
(* row is [Code_Article, Numero_Inventaire, Quantite_Theorique,            *)
(* Quantite_Reelle, Emplacements].                                         *)
(***************************************************************************)
\* real_quantities_dict.get(key, 0): the last row of the key wins
RealQuantity(completed, code_article, numero_inventaire) ==
    LET hits == TrueIdx([i \in 1..Len(completed) |->
                            /\ completed[i].Code_Article = code_article
                            /\ completed[i].Numero_Inventaire = numero_inventaire])
    IN  IF hits = <<>> THEN 0 ELSE completed[hits[Len(hits)]].Quantite_Reelle

DiscrepancyRow(original_row, completed) ==
    [CODE_ARTICLE |-> original_row.CODE_ARTICLE,
     NUMERO_INVENTAIRE |-> original_row.NUMERO_INVENTAIRE,
     NUMERO_LOT |-> original_row.NUMERO_LOT,
     TYPE_LOT |-> original_row.Type_Lot,
     QUANTITE_ORIGINALE |-> original_row.QUANTITE,
     QUANTITE_REELLE_SAISIE_TOTALE |->
         RealQuantity(completed, original_row.CODE_ARTICLE,
                      original_row.NUMERO_INVENTAIRE),
     AJUSTEMENT |-> 0,
     QUANTITE_CORRIGEE |-> original_row.QUANTITE,
     Date_Lot |-> original_row.Date_Lot,
     original_s_line_raw |-> original_row.original_s_line_raw,
     STATUT |-> original_row.STATUT,
     UNITE |-> original_row.UNITE,
     ZONE_PK |-> original_row.ZONE_PK,
     EMPLACEMENT |-> original_row.EMPLACEMENT]

\* CalculateDiscrepancies as a join: the records with a template row only
CalculateDiscrepanciesOfCounted(completed, original) ==
    LET counted == SelectSeq(original,
                             LAMBDA r : \E i \in 1..Len(completed) :
                                 /\ completed[i].Code_Article = r.CODE_ARTICLE
                                 /\ completed[i].Numero_Inventaire = r.NUMERO_INVENTAIRE)
    IN  [i \in 1..Len(counted) |-> DiscrepancyRow(counted[i], completed)]

CalculateDiscrepancies(completed, original) ==
    [i \in 1..Len(original) |-> DiscrepancyRow(original[i], completed)]

(***************************************************************************)
(* Distribution Engine: distribute_discrepancies.                          *)
(***************************************************************************)
Strategies == {"FIFO", "LIFO", "OTHER"}

\* FifoBefore with the undated lots first
FifoBeforeNaFirst(a, b) ==
    IF a.Date_Lot # b.Date_Lot
    THEN a.Date_Lot = NoDate \/ (b.Date_Lot # NoDate /\ a.Date_Lot < b.Date_Lot)
    ELSE StrOrd(a.NUMERO_LOT) < StrOrd(b.NUMERO_LOT)

\* sort_values(['Date_Lot', 'NUMERO_LOT'], na_position='last'): a before b
FifoBefore(a, b) ==
    IF a.Date_Lot # b.Date_Lot
    THEN a.Date_Lot # NoDate /\ (b.Date_Lot = NoDate \/ a.Date_Lot < b.Date_Lot)
    ELSE StrOrd(a.NUMERO_LOT) < StrOrd(b.NUMERO_LOT)

\* LifoBefore with the undated lots last
LifoBeforeNaLast(a, b) ==
    IF a.Date_Lot # b.Date_Lot
    THEN b.Date_Lot = NoDate \/ (a.Date_Lot # NoDate /\ a.Date_Lot > b.Date_Lot)
    ELSE StrOrd(a.NUMERO_LOT) > StrOrd(b.NUMERO_LOT)

\* sort_values(..., ascending=[False, False], na_position='first'): a before b
LifoBefore(a, b) ==
    IF a.Date_Lot # b.Date_Lot
    THEN a.Date_Lot = NoDate \/ (b.Date_Lot # NoDate /\ a.Date_Lot > b.Date_Lot)
    ELSE StrOrd(a.NUMERO_LOT) > StrOrd(b.NUMERO_LOT)

\* the place of row x in the sorted indices: behind every row that does not
\* come after it, so that the sort is stable; before[<<x, y>>] is "row x
\* comes before row y"
InsertStable(sorted, x, before) ==
    LET later == TrueIdx([k \in 1..Len(sorted) |-> before[<<x, sorted[k]>>]])
        n == IF later = <<>> THEN Len(sorted) ELSE later[1] - 1
    IN  SubSeq(sorted, 1, n) \o <<x>> \o SubSeq(sorted, n + 1, Len(sorted))

RECURSIVE SortStable(_, _)
\* the indices 1..n of the rows in sorted order
SortStable(n, before) ==
    IF n = 0 THEN <<>>
    ELSE InsertStable(SortStable(n - 1, before), n, before)

SortGroup(grp, strat) ==
    LET n == Len(grp)
        fifo == [pr \in (1..n) \X (1..n) |-> FifoBefore(grp[pr[1]], grp[pr[2]])]
        lifo == [pr \in (1..n) \X (1..n) |-> LifoBefore(grp[pr[1]], grp[pr[2]])]
    IN  CASE strat = "FIFO" -> [k \in 1..n |-> grp[SortStable(n, fifo)[k]]]
          [] strat = "LIFO" -> [k \in 1..n |-> grp[SortStable(n, lifo)[k]]]
          [] OTHER -> grp

\* AllocateLot without ecart_restant += quantite_originale_lot
AllocateLotForgetsDrained(ecart, i, quantite_originale_lot) ==
    IF ecart = 0
    THEN [quantite_corrigee |-> quantite_originale_lot, ajustement_lot |-> 0,
          ecart_restant |-> ecart]
    ELSE IF ecart > 0
    THEN IF i = 0
         THEN [quantite_corrigee |-> quantite_originale_lot + ecart,
               ajustement_lot |-> ecart, ecart_restant |-> 0]
         ELSE [quantite_corrigee |-> quantite_originale_lot, ajustement_lot |-> 0,
               ecart_restant |-> ecart]
    ELSE IF Abs(ecart) >= quantite_originale_lot
         THEN [quantite_corrigee |-> 0, ajustement_lot |-> -quantite_originale_lot,
               ecart_restant |-> ecart]
         ELSE [quantite_corrigee |-> quantite_originale_lot + ecart,
               ajustement_lot |-> ecart, ecart_restant |-> 0]

\* AllocateLot that books the whole remaining delta on a lot it empties
AllocateLotBooksWholeDelta(ecart, i, quantite_originale_lot) ==
    IF ecart = 0
    THEN [quantite_corrigee |-> quantite_originale_lot, ajustement_lot |-> 0,
          ecart_restant |-> ecart]
    ELSE IF ecart > 0
    THEN IF i = 0
         THEN [quantite_corrigee |-> quantite_originale_lot + ecart,
               ajustement_lot |-> ecart, ecart_restant |-> 0]
         ELSE [quantite_corrigee |-> quantite_originale_lot, ajustement_lot |-> 0,
               ecart_restant |-> ecart]
    ELSE IF Abs(ecart) >= quantite_originale_lot
         THEN [quantite_corrigee |-> 0, ajustement_lot |-> ecart,
               ecart_restant |-> ecart + quantite_originale_lot]
         ELSE [quantite_corrigee |-> quantite_originale_lot + ecart,
               ajustement_lot |-> ecart, ecart_restant |-> 0]

\* AllocateLot without "ecart_restant = 0" after a partial withdrawal
AllocateLotKeepsDraining(ecart, i, quantite_originale_lot) ==
    IF ecart = 0
    THEN [quantite_corrigee |-> quantite_originale_lot, ajustement_lot |-> 0,
          ecart_restant |-> ecart]
    ELSE IF ecart > 0
    THEN IF i = 0
         THEN [quantite_corrigee |-> quantite_originale_lot + ecart,
               ajustement_lot |-> ecart, ecart_restant |-> 0]
         ELSE [quantite_corrigee |-> quantite_originale_lot, ajustement_lot |-> 0,
               ecart_restant |-> ecart]
    ELSE IF Abs(ecart) >= quantite_originale_lot
         THEN [quantite_corrigee |-> 0, ajustement_lot |-> -quantite_originale_lot,
               ecart_restant |-> ecart + quantite_originale_lot]
         ELSE [quantite_corrigee |-> quantite_originale_lot + ecart,
               ajustement_lot |-> ecart, ecart_restant |-> ecart]

\* one pass of the allocation loop: lot number idx (from 0) of the sorted group
AllocateLot(ecart, i, quantite_originale_lot) ==
    IF ecart = 0
    THEN [quantite_corrigee |-> quantite_originale_lot, ajustement_lot |-> 0,
          ecart_restant |-> ecart]
    ELSE IF ecart > 0
    THEN IF i = 0
         THEN [quantite_corrigee |-> quantite_originale_lot + ecart,
               ajustement_lot |-> ecart, ecart_restant |-> 0]
         ELSE [quantite_corrigee |-> quantite_originale_lot, ajustement_lot |-> 0,
               ecart_restant |-> ecart]
    ELSE IF Abs(ecart) >= quantite_originale_lot
         THEN [quantite_corrigee |-> 0, ajustement_lot |-> -quantite_originale_lot,
               ecart_restant |-> ecart + quantite_originale_lot]
         ELSE [quantite_corrigee |-> quantite_originale_lot + ecart,
               ajustement_lot |-> ecart, ecart_restant |-> 0]

\* the distributed row of a lot
DistributedRow(lot_row, alloc, saisie) ==
    [CODE_ARTICLE |-> lot_row.CODE_ARTICLE,
     NUMERO_INVENTAIRE |-> lot_row.NUMERO_INVENTAIRE,
     NUMERO_LOT |-> lot_row.NUMERO_LOT,
     TYPE_LOT |-> lot_row.TYPE_LOT,
     STATUT |-> lot_row.STATUT,
     UNITE |-> lot_row.UNITE,
     ZONE_PK |-> lot_row.ZONE_PK,
     QUANTITE_REELLE_SAISIE_TOTALE |-> lot_row.QUANTITE_REELLE_SAISIE_TOTALE,
     QUANTITE_ORIGINALE |-> lot_row.QUANTITE_ORIGINALE,
     AJUSTEMENT |-> alloc.ajustement_lot,
     QUANTITE_CORRIGEE |-> alloc.quantite_corrigee,
     QUANTITE_REELLE_SAISIE |-> saisie,
     Date_Lot |-> lot_row.Date_Lot,
     original_s_line_raw |-> lot_row.original_s_line_raw,
     EMPLACEMENT |-> lot_row.EMPLACEMENT,
     reference_line |-> <<>>,
     is_new_lotecart |-> "NaN",
     is_existing_update |-> "NaN"]

\* ResidualWarning with a tolerance of 0.02
ResidualWarningLoose(ecart) == Abs(ecart) > RESIDUAL_TOLERANCE + 1

\* abs(ecart_restant) > 0.01
ResidualWarning(ecart) == Abs(ecart) > RESIDUAL_TOLERANCE

QuantiteOriginaleTotale(grp) ==
    SumSeq([i \in 1..Len(grp) |-> grp[i].QUANTITE_ORIGINALE])

EcartTotal(grp) ==
    grp[1].QUANTITE_REELLE_SAISIE_TOTALE - QuantiteOriginaleTotale(grp)

RECURSIVE AllocationLoop(_, _, _, _, _)
\* the loop over sorted_group from lot i on: the rows and the final ecart_restant
AllocationLoop(sorted, i, ecart, saisie, rows) ==
    IF i >= Len(sorted) THEN [rows |-> rows, ecart_restant |-> ecart]
    ELSE LET alloc == AllocateLot(ecart, i, sorted[i + 1].QUANTITE_ORIGINALE)
         IN  AllocationLoop(sorted, i + 1, alloc.ecart_restant, saisie,
                            Append(rows, DistributedRow(sorted[i + 1], alloc, saisie)))

DistributeGroup(grp, strat) ==
    AllocationLoop(SortGroup(grp, strat), 0, EcartTotal(grp),
                   grp[1].QUANTITE_REELLE_SAISIE_TOTALE, <<>>)

\* the groupby key of a discrepancy row
GroupKey(r) ==
    <<r.CODE_ARTICLE, r.NUMERO_INVENTAIRE, r.STATUT, r.UNITE, r.ZONE_PK, r.EMPLACEMENT>>

RECURSIVE KeyBefore(_, _)
KeyBefore(k1, k2) ==
    IF k1 = <<>> THEN FALSE
    ELSE IF Head(k1) # Head(k2) THEN StrOrd(Head(k1)) < StrOrd(Head(k2))
    ELSE KeyBefore(Tail(k1), Tail(k2))

RECURSIVE SortKeys(_)
\* groupby(sort=True): the keys in ascending order
SortKeys(keys) ==
    IF keys = {} THEN <<>>
    ELSE LET first == CHOOSE k \in keys : \A o \in keys \ {k} : KeyBefore(k, o)
         IN  <<first>> \o SortKeys(keys \ {first})

GroupKeys(discrepancies) == SortKeys({GroupKey(discrepancies[i]) : i \in 1..Len(discrepancies)})

GroupOf(discrepancies, key) == SelectSeq(discrepancies, LAMBDA r : GroupKey(r) = key)

RECURSIVE DistributeAll(_, _, _)
\* distributed_rows over the groups in key order
DistributeAll(discrepancies, keys, strat) ==
    IF keys = <<>> THEN <<>>
    ELSE DistributeGroup(GroupOf(discrepancies, Head(keys)), strat).rows
         \o DistributeAll(discrepancies, Tail(keys), strat)

\* the groups for which the residual warning is logged
ResidualWarnings(discrepancies, strat) ==
    {k \in Range(GroupKeys(discrepancies)) :
        ResidualWarning(DistributeGroup(GroupOf(discrepancies, k), strat).ecart_restant)}

(***************************************************************************)
(* Found-Stock Handler: LotecartProcessor.                                 *)
(***************************************************************************)
\* pd.to_numeric(cell as text, errors="coerce").fillna(0)
CleanQuantity(cell) == IF ToNumeric(cell).isna THEN 0 ELSE ToNumeric(cell).value

\* a row of df_clean: the theoretical quantity as a number (the counted cells
\* of the model are numeric cells, which the conversion leaves as they are)
CleanRow(row) ==
    [Numero_Inventaire |-> row.Numero_Inventaire,
     Code_Article |-> row.Code_Article,
     Quantite_Theorique |-> CleanQuantity(row.Quantite_Theorique),
     Quantite_Reelle |-> row.Quantite_Reelle,
     Emplacements |-> row.Emplacements]

\* IsLotecartCandidate with the boundary counted = 0 let in
IsLotecartCandidateOrZero(row) == row.Quantite_Theorique = 0 /\ row.Quantite_Reelle >= 0

\* the mask of detect_lotecart_candidates, on a row of df_clean
IsLotecartCandidate(row) == row.Quantite_Theorique = 0 /\ row.Quantite_Reelle > 0

\* a row of df_clean marked as a candidate
MarkedCandidate(row) ==
    [Numero_Inventaire |-> row.Numero_Inventaire,
     Code_Article |-> row.Code_Article,
     Quantite_Theorique |-> row.Quantite_Theorique,
     Quantite_Reelle |-> row.Quantite_Reelle,
     Emplacements |-> row.Emplacements,
     Type_Lot |-> "lotecart",
     Ecart |-> row.Quantite_Reelle,
     Is_Lotecart |-> TRUE]

DetectLotecartCandidates(completed) ==
    LET df_clean == [i \in 1..Len(completed) |-> CleanRow(completed[i])]
        lotecart_candidates_rows == SelectSeq(df_clean, IsLotecartCandidate)
    IN  [i \in 1..Len(lotecart_candidates_rows) |->
            MarkedCandidate(lotecart_candidates_rows[i])]

\* bool(x) of a flag column: NaN (the column is missing on the row) is true
Truthy(flag) == flag \in {"True", "NaN"}

UpdateAdjustment(candidate, existing_line) ==
    [CODE_ARTICLE |-> candidate.Code_Article,
     NUMERO_INVENTAIRE |-> candidate.Numero_Inventaire,
     NUMERO_LOT |-> existing_line.NUMERO_LOT,
     TYPE_LOT |-> "lotecart",
     STATUT |-> "NaN",
     UNITE |-> "NaN",
     ZONE_PK |-> "NaN",
     QUANTITE_REELLE_SAISIE_TOTALE |-> "NaN",
     QUANTITE_ORIGINALE |-> 0,
     AJUSTEMENT |-> candidate.Quantite_Reelle,
     QUANTITE_CORRIGEE |-> candidate.Quantite_Reelle,
     QUANTITE_REELLE_SAISIE |-> candidate.Quantite_Reelle,
     Date_Lot |-> existing_line.Date_Lot,
     original_s_line_raw |-> existing_line.original_s_line_raw,
     EMPLACEMENT |-> "",
     reference_line |-> <<>>,
     is_new_lotecart |-> "False",
     is_existing_update |-> "True"]

NewLineAdjustment(candidate, ref_lot) ==
    [CODE_ARTICLE |-> candidate.Code_Article,
     NUMERO_INVENTAIRE |-> candidate.Numero_Inventaire,
     NUMERO_LOT |-> LOTECART,
     TYPE_LOT |-> "lotecart",
     STATUT |-> "NaN",
     UNITE |-> "NaN",
     ZONE_PK |-> "NaN",
     QUANTITE_REELLE_SAISIE_TOTALE |-> "NaN",
     QUANTITE_ORIGINALE |-> 0,
     AJUSTEMENT |-> candidate.Quantite_Reelle,
     QUANTITE_CORRIGEE |-> candidate.Quantite_Reelle,
     QUANTITE_REELLE_SAISIE |-> candidate.Quantite_Reelle,
     Date_Lot |-> NoDate,
     original_s_line_raw |-> <<>>,
     EMPLACEMENT |-> "",
     reference_line |-> ref_lot.original_s_line_raw,
     is_new_lotecart |-> "True",
     is_existing_update |-> "False"]

\* CandidateAdjustment that looks for the reference line first
CandidateAdjustmentReferenceFirst(candidate, original) ==
    LET existing_zero_qty_line ==
            SelectSeq(original, LAMBDA r : r.CODE_ARTICLE = candidate.Code_Article
                                        /\ r.NUMERO_INVENTAIRE = candidate.Numero_Inventaire
                                        /\ r.QUANTITE = 0)
        reference_lots ==
            SelectSeq(original, LAMBDA r : r.CODE_ARTICLE = candidate.Code_Article
                                        /\ (candidate.Numero_Inventaire # ""
                                            => r.NUMERO_INVENTAIRE = candidate.Numero_Inventaire))
    IN  IF reference_lots # <<>>
        THEN <<NewLineAdjustment(candidate, reference_lots[1])>>
        ELSE IF existing_zero_qty_line # <<>>
        THEN <<UpdateAdjustment(candidate, existing_zero_qty_line[1])>>
        ELSE <<>>

\* the adjustments of one candidate: none or one
CandidateAdjustment(candidate, original) ==
    LET existing_zero_qty_line ==
            SelectSeq(original, LAMBDA r : r.CODE_ARTICLE = candidate.Code_Article
                                        /\ r.NUMERO_INVENTAIRE = candidate.Numero_Inventaire
                                        /\ r.QUANTITE = 0)
        reference_lots ==
            SelectSeq(original, LAMBDA r : r.CODE_ARTICLE = candidate.Code_Article
                                        /\ (candidate.Numero_Inventaire # ""
                                            => r.NUMERO_INVENTAIRE = candidate.Numero_Inventaire))
    IN  IF existing_zero_qty_line # <<>>
        THEN <<UpdateAdjustment(candidate, existing_zero_qty_line[1])>>
        ELSE IF reference_lots # <<>>
        THEN <<NewLineAdjustment(candidate, reference_lots[1])>>
        ELSE <<>>

RECURSIVE CreateLotecartAdjustments(_, _)
CreateLotecartAdjustments(candidates, original) ==
    IF candidates = <<>> THEN <<>>
    ELSE CandidateAdjustment(Head(candidates), original)
         \o CreateLotecartAdjustments(Tail(candidates), original)

\* the line built from the reference line of a new-line adjustment
LotecartLine(adjustment, current_line_number) ==
    LET new_parts == adjustment.reference_line
        p3 == SetField(new_parts, COL_RANG, current_line_number)
        p5 == SetField(p3, COL_QUANTITE, FormatNumber(adjustment.QUANTITE_CORRIGEE))
        p6 == SetField(p5, COL_QUANTITE_REELLE,
                       FormatNumber(adjustment.QUANTITE_REELLE_SAISIE))
        p7 == SetField(p6, COL_INDICATEUR_COMPTE, "2")
    IN  SetField(p7, COL_NUMERO_LOT, LOTECART)

RECURSIVE GenerateLotecartLines(_, _)
GenerateLotecartLines(lotecart_adjustments, max_line_number) ==
    IF lotecart_adjustments = <<>> THEN <<>>
    ELSE LET adjustment == Head(lotecart_adjustments)
             skip == \/ ~Truthy(adjustment.is_new_lotecart)
                     \/ adjustment.reference_line = <<>>
                     \/ Len(adjustment.reference_line) < 15
         IN  IF skip
             THEN GenerateLotecartLines(Tail(lotecart_adjustments), max_line_number)
             ELSE <<LotecartLine(adjustment, max_line_number + RANG_STEP)>>
                  \o GenerateLotecartLines(Tail(lotecart_adjustments),
                                           max_line_number + RANG_STEP)

(***************************************************************************)
(* Record Regenerator: generate_final_file.                                *)
(***************************************************************************)
AdjustmentKey(row) == <<row.CODE_ARTICLE, row.NUMERO_INVENTAIRE, row.NUMERO_LOT>>

\* adjustments_dict: the rows of a key, the last of which the dict keeps
AdjustmentsOf(distributed, key) ==
    TrueIdx([i \in 1..Len(distributed) |-> AdjustmentKey(distributed[i]) = key])

\* emplacement_updates: the rows of (article, inventory) with a location text
EmplacementUpdatesOf(completed, code_article, numero_inventaire) ==
    TrueIdx([i \in 1..Len(completed) |->
                /\ completed[i].Code_Article = code_article
                /\ completed[i].Numero_Inventaire = numero_inventaire
                /\ code_article # "" /\ numero_inventaire # ""
                /\ completed[i].Emplacements # ""])

\* Indicateur with an epsilon above 0.01
IndicateurLoose(qte_theo_ajustee) == IF Abs(qte_theo_ajustee) <= 1 THEN "2" ELSE "1"

\* field 7 of a line that has an adjustment: abs(qte_val) < 1e-9
Indicateur(qte_theo_ajustee) == IF qte_theo_ajustee = 0 THEN "2" ELSE "1"

\* the output line of one original row
ReplayLine(original_row, distributed, completed) ==
    LET parts == original_row.original_s_line_raw
        hits == AdjustmentsOf(distributed, AdjustmentKey(original_row))
        quantite_originale == Field(parts, COL_QUANTITE)
        adjusted ==
            LET adjustment_data == distributed[hits[Len(hits)]]
                p6 == SetField(parts, COL_QUANTITE_REELLE,
                               ToCsvNumber(adjustment_data.QUANTITE_CORRIGEE))
                p7 == SetField(p6, COL_INDICATEUR_COMPTE,
                               Indicateur(adjustment_data.QUANTITE_CORRIGEE))
            IN  IF adjustment_data.TYPE_LOT = "lotecart"
                THEN SetField(p7, COL_NUMERO_LOT, LOTECART) ELSE p7
        unadjusted ==
            SetField(SetField(parts, COL_QUANTITE_REELLE, quantite_originale),
                     COL_INDICATEUR_COMPTE, "1")
        quantities == IF hits # <<>> THEN adjusted ELSE unadjusted
        moves == EmplacementUpdatesOf(completed, original_row.CODE_ARTICLE,
                                      original_row.NUMERO_INVENTAIRE)
    IN  IF moves # <<>>
        THEN SetField(quantities, COL_EMPLACEMENT, completed[moves[Len(moves)]].Emplacements)
        ELSE quantities

\* Replayed with len(parts) > 15
ReplayedStrict(original) == SelectSeq(original, LAMBDA r : Len(r.original_s_line_raw) > 15)

\* the rows the regenerator replays: len(parts) >= 15
Replayed(original) == SelectSeq(original, LAMBDA r : Len(r.original_s_line_raw) >= 15)

\* MaxLineNumber as the rank of the last row: max_line_number = line_number
MaxLineNumberLast(rows) ==
    IF rows = <<>> THEN 0 ELSE Field(rows[Len(rows)].original_s_line_raw, COL_RANG)

RECURSIVE MaxLineNumber(_)
\* max_line_number after the replay loop
MaxLineNumber(rows) ==
    IF rows = <<>> THEN 0
    ELSE Max(Field(rows[Len(rows)].original_s_line_raw, COL_RANG),
             MaxLineNumber(SubSeq(rows, 1, Len(rows) - 1)))

\* the records kept for generate_lotecart_lines
NewLotecartAdjustments(distributed) ==
    SelectSeq(distributed, LAMBDA adj : Truthy(adj.is_new_lotecart)
                                     /\ ~Truthy(adj.is_existing_update))

\* AdaptLotecartLine that keeps the decimal point of the generated quantity
AdaptLotecartLineKeepsPoint(line) ==
    IF Len(line) >= 15
    THEN SetField(SetField(line, COL_QUANTITE, CsvText(0)),
                  COL_QUANTITE_REELLE, Field(line, COL_QUANTITE))
    ELSE line

\* the adaptation of a generated LOTECART line to the output columns
AdaptLotecartLine(line) ==
    IF Len(line) >= 15
    THEN SetField(SetField(line, COL_QUANTITE, CsvText(0)),
                  COL_QUANTITE_REELLE, ReplacePointByComma(Field(line, COL_QUANTITE)))
    ELSE line

\* the lines written to the final file
FinalFileLines(headers, original, distributed, completed) ==
    LET rows == Replayed(original)
        replay == [i \in 1..Len(rows) |-> ReplayLine(rows[i], distributed, completed)]
        new_lotecart_lines ==
            GenerateLotecartLines(NewLotecartAdjustments(distributed), MaxLineNumber(rows))
    IN  headers \o replay
        \o [i \in 1..Len(new_lotecart_lines) |-> AdaptLotecartLine(new_lotecart_lines[i])]

(***************************************************************************)
(* Aggregator and template (aggregate_data, generate_template): one row    *)
(* per aggregated group, in the order of the aggregated table.             *)
(***************************************************************************)
\* AggregationKey without the status of the article
AggregationKeyWithoutStatus(r) ==
    <<r.CODE_ARTICLE, "A", r.EMPLACEMENT, r.ZONE_PK, r.UNITE, r.NUMERO_INVENTAIRE>>

\* the aggregation keys, NUMERO_INVENTAIRE appended
AggregationKey(r) ==
    <<r.CODE_ARTICLE, r.STATUT, r.EMPLACEMENT, r.ZONE_PK, r.UNITE, r.NUMERO_INVENTAIRE>>

\* _get_priority_lot_type, then type_priority of sort_key
PriorityRank(types) ==
    IF "type1" \in types THEN 1
    ELSE IF "type2" \in types THEN 2
    ELSE IF "lotecart" \in types THEN 3
    ELSE 4

AggregatedGroup(original, key) ==
    LET members == SelectSeq(original, LAMBDA r : AggregationKey(r) = key)
        dates == {members[i].Date_Lot : i \in 1..Len(members)} \ {NoDate}
    IN  [CODE_ARTICLE |-> key[1],
         STATUT |-> key[2],
         EMPLACEMENT |-> key[3],
         ZONE_PK |-> key[4],
         UNITE |-> key[5],
         NUMERO_INVENTAIRE |-> key[6],
         Quantite_Theorique_Totale |->
             SumSeq([i \in 1..Len(members) |-> members[i].QUANTITE]),
         Date_Min |-> IF dates = {} THEN NoDate
                      ELSE CHOOSE d \in dates : \A e \in dates : d <= e,
         priority |-> PriorityRank({members[i].Type_Lot : i \in 1..Len(members)})]

\* sort_key: (priority, Date_Min), a missing date counting as datetime.min
SortKeyBefore(a, b) ==
    IF a.priority # b.priority THEN a.priority < b.priority
    ELSE a.Date_Min < b.Date_Min

AggregateData(original) ==
    LET keys == SortKeys({AggregationKey(original[i]) : i \in 1..Len(original)})
        n == Len(keys)
        aggregated == [i \in 1..n |-> AggregatedGroup(original, keys[i])]
        before == [pr \in (1..n) \X (1..n) |->
                      SortKeyBefore(aggregated[pr[1]], aggregated[pr[2]])]
    IN  [k \in 1..n |-> aggregated[SortStable(n, before)[k]]]

\* the template row of an aggregated group, Quantite_Reelle filled in by the user
TemplateRow(row, reelle) ==
    [Numero_Inventaire |-> row.NUMERO_INVENTAIRE,
     Code_Article |-> row.CODE_ARTICLE,
     Quantite_Theorique |-> FormatNumber(row.Quantite_Theorique_Totale),
     Quantite_Reelle |-> reelle,
     Emplacements |-> row.EMPLACEMENT]

(***************************************************************************)
(* Inputs: the uploaded files and the completed templates.                 *)
(***************************************************************************)
Articles == {"ART1", "ART2"}
Emplacements == {"E1", "E2"}
FileLots == {LotA, LotU}
\* quantity texts of the S lines: canonical ones and a padded one
QuantiteTexts == {CsvText(q) : q \in 0..(MaxQty - 1)} \cup {AltText(MaxQty)}
Counts == 0..MaxCount
\* the numbers of S lines of a file
LineCounts == {1, 2}

\* the rank of the i-th S line of a file: 2000, 1000, 4000, 3000, ...
RangAt(i) == RANG_STEP * (IF i % 2 = 1 THEN i + 1 ELSE i - 1)

SLine(art, empl, lot, qte) ==
    <<"S", "SES1", "INV1", 0, "SITE1", qte, CsvText(0), "1", art, empl,
      "A", "UN", "0", "ZONE1", lot>>

\* the S lines of the files: every line of ART1, and an empty line of a second
\* article
SLines ==
    {SLine("ART1", e, l, q) : e \in Emplacements, l \in FileLots, q \in QuantiteTexts}
    \cup {SLine("ART2", "E1", LotU, CsvText(0))}

\* a file: E and L headers, the S lines ranked by position, an L line after the
\* first S line when more follow
FileOf(lines) ==
    LET ranked == [i \in 1..Len(lines) |-> SetField(lines[i], COL_RANG, RangAt(i))]
    IN  <<(<<"E", "HDR0">>), (<<"L", "HDR1">>)>> \o SubSeq(ranked, 1, 1)
        \o (IF Len(ranked) > 1
            THEN <<(<<"L", "HDR2">>)>> \o SubSeq(ranked, 2, Len(ranked)) ELSE <<>>)

\* files with an S line of 14 fields
ShortFiles ==
    {FileOf(<<SubSeq(SLine("ART1", "E1", LotA, CsvText(1)), 1, 14)>>),
     FileOf(<<SLine("ART1", "E1", LotA, CsvText(1)),
              SubSeq(SLine("ART2", "E1", LotU, CsvText(0)), 1, 14)>>)}

\* files with a quantity text that is no number
BadQuantityFiles ==
    {FileOf(<<SLine("ART1", "E1", LotA, BadText)>>),
     FileOf(<<SLine("ART1", "E1", LotA, BadText), SLine("ART1", "E1", LotU, CsvText(1))>>),
     FileOf(<<SLine("ART1", "E1", LotA, BadText), SLine("ART1", "E2", LotU, BadText)>>)}

\* files with an S line of 16 fields: a field behind the columns of the schema
LongFiles ==
    {FileOf(<<SLine("ART1", "E1", LotA, CsvText(1)) \o <<"EXTRA">> >>),
     FileOf(<<SLine("ART1", "E1", LotA, CsvText(0)),
              SLine("ART1", "E2", LotU, CsvText(1)) \o <<"EXTRA">> >>)}

\* a file with three S lines of one article at one location, the second
\* with another status
StatusFiles ==
    {FileOf(<<SLine("ART1", "E1", LotA, CsvText(1)),
              SetField(SLine("ART1", "E1", LotA, CsvText(1)), 10, "Q"),
              SLine("ART1", "E1", LotU, AltText(MaxQty))>>)}

\* a file with two type 1 lots of one article at two locations, the first with
\* a day its month does not have
UndatedFiles ==
    {FileOf(<<SLine("ART1", "E1", LotX, CsvText(1)),
              SLine("ART1", "E2", LotA, CsvText(1))>>)}

Files ==
    {FileOf(ls) : ls \in UNION {[1..n -> SLines] : n \in LineCounts}}
    \cup ShortFiles \cup BadQuantityFiles \cup LongFiles \cup StatusFiles
    \cup UndatedFiles

\* the row a user adds for stock of ART1 found where the extract has none
AddedRow(theorique) ==
    [Numero_Inventaire |-> "INV1", Code_Article |-> "ART1",
     Quantite_Theorique |-> theorique, Quantite_Reelle |-> MaxCount, Emplacements |-> ""]
\* the k-th added row: its theoretical cell is left empty (k odd) or typed as 0
AddedRowAt(k) == AddedRow(IF k % 2 = 1 THEN BadText ELSE CsvText(0))

\* the completed templates of a session: the generated rows with the counted
\* quantities typed in, then the added rows; or the generated rows without
\* the last one, which the user deleted
CompletedTemplates(original) ==
    LET aggregated == AggregateData(original)
        n == Len(aggregated)
    IN  ({[i \in 1..n |-> TemplateRow(aggregated[i], reelle[i])]
            \o [j \in 1..k |-> AddedRowAt(j)] :
            reelle \in [1..n -> Counts], k \in 0..MaxAdded}
         \cup {[i \in 1..(n - 1) |-> TemplateRow(aggregated[i], MaxCount)]})
        \ {<<>>}

(***************************************************************************)
(* State.                                                                  *)
(***************************************************************************)
VARIABLES
    \* the tables of the session in the session store
    original_df, completed_df, lotecart_candidates, discrepancies_df, distributed_df,
    \* the session row: status and header_lines
    status, header_lines,
    \* the final file, once written
    final_file,
    \* the groups of the last distribution with a residual warning in the log
    residual_warnings,
    \* the last call of a stage and whether it returned (TRUE) or raised (FALSE)
    last_call,
    \* what detect_lotecart_candidates returned to process_completed_file
    detected,
    \* the file of the upload, as saved in the upload folder
    uploaded_file,
    \* the allocation loop of distribute_discrepancies on one group: the position
    \* in the code, the strategy, the group, and the loop's local variables
    pc, strategy, group, sorted_group, idx, ecart_restant, distributed_rows, warned,
    \* a call of a text function (_to_csv_number, _extract_date_from_lot): its
    \* argument and what it returned
    arg, result,
    \* the attribute _last_invalid_qty_count of the file processor of the
    \* application (0: not set), and the invalid_cnt of the last upload's response
    last_invalid_qty_count, invalid_cnt

pipeline_vars == <<original_df, completed_df, lotecart_candidates, discrepancies_df,
                   distributed_df, status, header_lines, final_file, residual_warnings,
                   last_call, detected, uploaded_file>>
loop_vars == <<pc, strategy, group, sorted_group, idx, ecart_restant, distributed_rows,
               warned>>
text_vars == <<arg, result>>
processor_vars == <<last_invalid_qty_count, invalid_cnt>>
vars == <<pipeline_vars, loop_vars, text_vars, processor_vars>>

\* load_dataframe returns None for a table never saved
Absent == [present |-> FALSE, rows |-> <<>>]
Table(rows) == [present |-> TRUE, rows |-> rows]

PipelineInit ==
    /\ original_df = Absent
    /\ completed_df = Absent
    /\ lotecart_candidates = Absent
    /\ discrepancies_df = Absent
    /\ distributed_df = Absent
    /\ status = "none"
    /\ header_lines = <<>>
    /\ final_file = Absent
    /\ residual_warnings = {}
    /\ last_call = [op |-> "none", ok |-> TRUE]
    /\ detected = <<>>
    /\ uploaded_file = <<>>

\* no group is in the allocation loop
LoopIdle ==
    /\ pc = "idle"
    /\ strategy = "FIFO"
    /\ group = <<>>
    /\ sorted_group = <<>>
    /\ idx = 0
    /\ ecart_restant = 0
    /\ distributed_rows = <<>>
    /\ warned = FALSE

\* no text function has been called
NoCall == [fn |-> "none"]
TextIdle ==
    /\ arg = NoCall
    /\ result = NoCall

\* the file processor of a started application has no _last_invalid_qty_count
ProcessorIdle ==
    /\ last_invalid_qty_count = 0
    /\ invalid_cnt = 0

Init == PipelineInit /\ LoopIdle /\ TextIdle /\ ProcessorIdle

(***************************************************************************)
(* upload_file: create the session, parse the file, save original_df.      *)
(***************************************************************************)
UploadFile(file) ==
    LET parsed == ProcessCsvFile(file)
    IN  /\ IF parsed.success
           THEN /\ original_df' = Table(parsed.data)
                /\ header_lines' = parsed.headers
                /\ status' = "template_generated"
           ELSE /\ original_df' = Absent
                /\ header_lines' = <<>>
                /\ status' = "error"
        /\ last_call' = [op |-> "upload", ok |-> parsed.success]
        /\ uploaded_file' = file
        /\ last_invalid_qty_count' =
               IF parsed.success /\ InvalidQtyCount(file) > 0
               THEN InvalidQtyCount(file) ELSE last_invalid_qty_count
        /\ invalid_cnt' = IF parsed.success THEN last_invalid_qty_count' ELSE 0
        \* the session is new: it has no other table and no final file
        /\ completed_df' = Absent
        /\ lotecart_candidates' = Absent
        /\ discrepancies_df' = Absent
        /\ distributed_df' = Absent
        /\ final_file' = Absent
        /\ residual_warnings' = {}
        /\ detected' = <<>>
        /\ UNCHANGED <<loop_vars, text_vars>>

\* the upload of the session that the pipeline follows
Upload(file) ==
    /\ status = "none"
    /\ UploadFile(file)

(***************************************************************************)
(* process_completed_file: save completed_df, load original_df, detect     *)
(* the found-stock candidates, compute the discrepancies.                  *)
(***************************************************************************)
\* ProcessCompleted that saves the completed template under the key of the
\* original table
ProcessCompletedSavesOriginal(completed) ==
    /\ status # "none"
    /\ completed_df' = Table(completed)
    /\ original_df' = Table(completed)
    /\ last_call' = [op |-> "process", ok |-> original_df.present]
    /\ UNCHANGED <<lotecart_candidates, discrepancies_df, detected, distributed_df,
                   status, header_lines, final_file, residual_warnings, uploaded_file,
                   loop_vars, text_vars, processor_vars>>

ProcessCompleted(completed) ==
    /\ status # "none"
    /\ completed_df' = Table(completed)
    /\ IF ~original_df.present
       THEN /\ last_call' = [op |-> "process", ok |-> FALSE]
            /\ UNCHANGED <<lotecart_candidates, discrepancies_df, detected>>
       ELSE LET candidates == DetectLotecartCandidates(completed)
            IN  /\ detected' = candidates
                /\ lotecart_candidates' =
                       IF candidates # <<>> THEN Table(candidates) ELSE lotecart_candidates
                /\ discrepancies_df' =
                       Table(CalculateDiscrepancies(completed, original_df.rows))
                /\ last_call' = [op |-> "process", ok |-> TRUE]
    /\ UNCHANGED <<original_df, distributed_df, status, header_lines, final_file,
                   residual_warnings, uploaded_file, loop_vars, text_vars, processor_vars>>

\* the first processing pass of the session
Process ==
    /\ ~completed_df.present
    /\ \E completed \in CompletedTemplates(original_df.rows) : ProcessCompleted(completed)

(***************************************************************************)
(* distribute_discrepancies: allocate every group's delta, append the      *)
(* found-stock adjustments, save distributed_df.                           *)
(***************************************************************************)
Distribute(strat) ==
    /\ status # "none"
    /\ IF ~discrepancies_df.present
       THEN /\ last_call' = [op |-> "distribute", ok |-> FALSE]
            /\ UNCHANGED <<distributed_df, status, residual_warnings>>
       ELSE LET discrepancies == discrepancies_df.rows
                rows == DistributeAll(discrepancies, GroupKeys(discrepancies), strat)
                lotecart_adjustments ==
                    IF lotecart_candidates.present
                    THEN CreateLotecartAdjustments(lotecart_candidates.rows,
                                                   original_df.rows)
                    ELSE <<>>
            IN  /\ distributed_df' = Table(rows \o lotecart_adjustments)
                /\ residual_warnings' = ResidualWarnings(discrepancies, strat)
                /\ status' = "completed"
                /\ last_call' = [op |-> "distribute", ok |-> TRUE]
    /\ UNCHANGED <<original_df, completed_df, lotecart_candidates, discrepancies_df,
                   header_lines, final_file, detected, uploaded_file, loop_vars, text_vars,
                   processor_vars>>

\* GenerateFinal that updates the session before it looks for distributed_df
GenerateFinalMarksCompleted ==
    /\ status # "none"
    /\ IF ~distributed_df.present
       THEN /\ last_call' = [op |-> "generate", ok |-> FALSE]
            /\ status' = "completed"
            /\ UNCHANGED final_file
       ELSE /\ final_file' = Table(FinalFileLines(header_lines, original_df.rows,
                                                  distributed_df.rows, completed_df.rows))
            /\ status' = "completed"
            /\ last_call' = [op |-> "generate", ok |-> TRUE]
    /\ UNCHANGED <<original_df, completed_df, lotecart_candidates, discrepancies_df,
                   distributed_df, header_lines, residual_warnings, detected,
                   uploaded_file, loop_vars, text_vars, processor_vars>>

(***************************************************************************)
(* generate_final_file: headers, the replayed lines, the new lines.        *)
(***************************************************************************)
GenerateFinal ==
    /\ status # "none"
    /\ IF ~distributed_df.present
       THEN /\ last_call' = [op |-> "generate", ok |-> FALSE]
            /\ UNCHANGED <<final_file, status>>
       ELSE /\ final_file' = Table(FinalFileLines(header_lines, original_df.rows,
                                                  distributed_df.rows, completed_df.rows))
            /\ status' = "completed"
            /\ last_call' = [op |-> "generate", ok |-> TRUE]
    /\ UNCHANGED <<original_df, completed_df, lotecart_candidates, discrepancies_df,
                   distributed_df, header_lines, residual_warnings, detected,
                   uploaded_file, loop_vars, text_vars, processor_vars>>

Next ==
    \/ \E file \in Files : Upload(file)
    \/ Process
    \/ \E strat \in Strategies : Distribute(strat)
    \/ GenerateFinal

Spec == Init /\ [][Next]_vars

(***************************************************************************)
(* Uploads one after the other, each to a session of its own, on the one   *)
(* file processor of the application: the session variables are those of   *)
(* the session of the last upload.                                         *)
(***************************************************************************)
NextUploads == \E file \in Files : UploadFile(file)

SpecUploads == Init /\ [][NextUploads]_vars

(***************************************************************************)
(* A session whose completed template is sent in again: every stage may    *)
(* run any number of times, on a file of one stock line.                   *)
(***************************************************************************)
OneLineFiles == {FileOf(<<l>>) : l \in SLines}

ProcessAgain ==
    \E completed \in CompletedTemplates(original_df.rows) : ProcessCompleted(completed)

NextReprocess ==
    \/ \E file \in OneLineFiles : Upload(file)
    \/ ProcessAgain
    \/ \E strat \in Strategies : Distribute(strat)
    \/ GenerateFinal

SpecReprocess == Init /\ [][NextReprocess]_vars

(***************************************************************************)
(* The allocation loop of distribute_discrepancies, step by step, on one   *)
(* group: SortLots is the computation of ecart_total and sorted_group,     *)
(* AllocateNext one pass of the for loop, CheckResidual the test after it. *)
(***************************************************************************)
LoopLots == {LotA, LotB, LotC, LotU}
LoopQuantities == {-1} \cup 0..MaxLoopQty
LoopCounts == {-2, -1} \cup 0..MaxLoopCount
GroupSizes == {1, 2, 3}

\* the discrepancy row of the i-th line of a group of ART1 at E1
LoopRow(i, lot, q, saisie) ==
    DiscrepancyRow(
        ProcessRow(SetField(SLine("ART1", "E1", lot, CsvText(q)), COL_RANG, i)),
        <<[Numero_Inventaire |-> "INV1", Code_Article |-> "ART1",
           Quantite_Theorique |-> CsvText(0), Quantite_Reelle |-> saisie,
           Emplacements |-> "E1"]>>)

InitLoop ==
    /\ PipelineInit
    /\ TextIdle
    /\ ProcessorIdle
    /\ \E n \in GroupSizes :
         \E lots \in [1..n -> LoopLots], qs \in [1..n -> LoopQuantities],
            saisie \in LoopCounts :
             group = [i \in 1..n |-> LoopRow(i, lots[i], qs[i], saisie)]
    /\ strategy \in Strategies
    /\ pc = "sort"
    /\ sorted_group = <<>>
    /\ idx = 0
    /\ ecart_restant = 0
    /\ distributed_rows = <<>>
    /\ warned = FALSE

SortLots ==
    /\ pc = "sort"
    /\ sorted_group' = SortGroup(group, strategy)
    /\ ecart_restant' = EcartTotal(group)
    /\ pc' = "loop"
    /\ UNCHANGED <<strategy, group, idx, distributed_rows, warned, pipeline_vars, text_vars,
                   processor_vars>>

AllocateNext ==
    /\ pc = "loop"
    /\ idx < Len(sorted_group)
    /\ LET lot_row == sorted_group[idx + 1]
           alloc == AllocateLot(ecart_restant, idx, lot_row.QUANTITE_ORIGINALE)
       IN  /\ distributed_rows' =
                  Append(distributed_rows,
                         DistributedRow(lot_row, alloc,
                                        group[1].QUANTITE_REELLE_SAISIE_TOTALE))
           /\ ecart_restant' = alloc.ecart_restant
    /\ idx' = idx + 1
    /\ UNCHANGED <<pc, strategy, group, sorted_group, warned, pipeline_vars, text_vars,
                   processor_vars>>

CheckResidual ==
    /\ pc = "loop"
    /\ idx = Len(sorted_group)
    /\ warned' = ResidualWarning(ecart_restant)
    /\ pc' = "done"
    /\ UNCHANGED <<strategy, group, sorted_group, idx, ecart_restant,
                   distributed_rows, pipeline_vars, text_vars, processor_vars>>

NextLoop == SortLots \/ AllocateNext \/ CheckResidual

SpecLoop == InitLoop /\ [][NextLoop]_vars

(***************************************************************************)
(* The text functions, one call each on an argument of the sets below.     *)
(***************************************************************************)
WholeTexts == {<<"0">>, <<"7">>, <<"1", "2">>, <<"1", "0", "0">>}
FracTexts ==
    {<<>>, <<"5">>, <<"5", "0">>, <<"0", "5">>,
     <<"5", "0", "0", "0", "0", "0">>, <<"1", "2", "3", "4", "5", "6">>,
     <<"0", "0", "0", "0", "0", "0", "4">>, <<"0", "0", "0", "0", "0", "0", "6">>,
     <<"9", "9", "9", "9", "9", "9", "6">>}
\* whole parts with a sign; no text of the model spells a negative zero
SignedWholeTexts == WholeTexts \cup {<<"-">> \o w : w \in WholeTexts \ {<<"0">>}}
\* numbers written with a point or a comma, or with neither
NumberTexts ==
    SignedWholeTexts
    \cup {w \o <<sep>> \o fr : w \in SignedWholeTexts, sep \in {".", ","}, fr \in FracTexts}
    \cup {<<" ">> \o w \o <<",", "5", " ">> : w \in WholeTexts}
\* texts that float() rejects
OtherTexts == {<<>>, <<"a", "b", "c">>, <<"1", ".", "2", ",", "3">>}
\* numbers given as numbers
Floats == {ParseFloat(t).value : t \in {w \o <<".">> \o fr : w \in SignedWholeTexts,
                                                          fr \in FracTexts}}
FormatValues ==
    {[type |-> "str", s |-> t] : t \in NumberTexts \cup OtherTexts}
    \cup {[type |-> "float", f |-> f] : f \in Floats}

\* lot identifiers: five characters of a site, six of a date, four more
SiteTexts ==
    {<<"C", "P", "K", "U", "1">>, <<"C", "B", "2", "T", "V">>, <<"c", "p", "k", "u", "1">>}
DateTexts ==
    {<<"0", "1", "0", "2", "2", "5">>, <<"0", "2", "0", "1", "2", "5">>,
     <<"3", "1", "1", "2", "2", "4">>, <<"2", "9", "0", "2", "2", "4">>,
     <<"2", "9", "0", "2", "2", "5">>, <<"3", "1", "0", "4", "2", "5">>,
     <<"0", "0", "0", "1", "2", "5">>, <<"3", "2", "0", "1", "2", "5">>,
     <<"0", "1", "0", "0", "2", "5">>, <<"0", "1", "1", "3", "2", "5">>,
     <<"0", "1", "A", "2", "2", "5">>, <<"0", "1", "0", "2", "2">>}
SuffixTexts == {<<"A", "A", "A", "A">>, <<"B", "2", "B", "2">>, <<"A", "A", "A">>,
                <<"A", "A", "A", "a">>}
LotTexts ==
    {site \o date \o suffix : site \in SiteTexts, date \in DateTexts, suffix \in SuffixTexts}
    \cup {<<"L", "O", "T">> \o date : date \in DateTexts}
    \cup {<<" ">> \o <<"L", "O", "T">> \o date \o <<" ">> : date \in DateTexts}
    \cup {<<"L", "O", "T">> \o date \o <<"1">> : date \in DateTexts}
    \cup {<<>>, <<"L", "O", "T", "E", "C", "A", "R", "T">>}
LotNumbers ==
    {[na |-> FALSE, s |-> t] : t \in LotTexts} \cup {[na |-> TRUE, s |-> <<>>]}

InitText ==
    /\ PipelineInit
    /\ LoopIdle
    /\ ProcessorIdle
    /\ arg \in {[fn |-> "_to_csv_number", value |-> v, decimal_sep |-> d] :
                    v \in FormatValues, d \in {",", "."}}
               \cup {[fn |-> "_extract_date_from_lot", lot_number |-> l] :
                       l \in LotNumbers}
    /\ result = NoCall

ToCsvNumberCall ==
    /\ arg.fn = "_to_csv_number"
    /\ result = NoCall
    /\ result' = [fn |-> arg.fn, value |-> ToCsvNumberChars(arg.value, arg.decimal_sep)]
    /\ UNCHANGED <<arg, pipeline_vars, loop_vars, processor_vars>>

ExtractDateFromLotCall ==
    /\ arg.fn = "_extract_date_from_lot"
    /\ result = NoCall
    /\ result' = [fn |-> arg.fn, value |-> ExtractDateFromLotChars(arg.lot_number)]
    /\ UNCHANGED <<arg, pipeline_vars, loop_vars, processor_vars>>

NextText == ToCsvNumberCall \/ ExtractDateFromLotCall

SpecText == InitText /\ [][NextText]_vars

(***************************************************************************)
(* Properties of the allocation loop (specification SpecLoop).             *)
(***************************************************************************)
Reverse(s) == [i \in 1..Len(s) |-> s[Len(s) + 1 - i]]
RawLines(rows) == [i \in 1..Len(rows) |-> rows[i].original_s_line_raw]
Adjustments(rows) == [i \in 1..Len(rows) |-> rows[i].AJUSTEMENT]
Originals(rows) == [i \in 1..Len(rows) |-> rows[i].QUANTITE_ORIGINALE]
\* the position of a line in the group as it was read
InputPos(r) == Field(r.original_s_line_raw, COL_RANG)

\* a has the smaller (lot date, lot id), an undated lot counting as the latest
SmallerLot(a, b) ==
    \/ a.Date_Lot # NoDate /\ b.Date_Lot = NoDate
    \/ a.Date_Lot # NoDate /\ b.Date_Lot # NoDate /\ a.Date_Lot < b.Date_Lot
    \/ a.Date_Lot = b.Date_Lot /\ StrOrd(a.NUMERO_LOT) < StrOrd(b.NUMERO_LOT)

\* a comes strictly before b in the order of the policy
PolicyBefore(a, b, strat) ==
    CASE strat = "FIFO" -> SmallerLot(a, b)
      [] strat = "LIFO" -> SmallerLot(b, a)
      [] OTHER -> InputPos(a) < InputPos(b)

\* rows holds every line of grp once, and no line behind one it comes before
InPolicyOrder(rows, grp, strat) ==
    /\ Len(rows) = Len(grp)
    /\ Range(RawLines(rows)) = Range(RawLines(grp))
    /\ \A i, j \in 1..Len(rows) : i < j => ~PolicyBefore(rows[j], rows[i], strat)

LoopDone == pc = "done"
Delta == EcartTotal(group)

\* C1: when the loop of a group is over, the sum of the adjustments of its
\* lines is the delta of the group (counted quantity minus the sum of the
\* original quantities) within 0.01, unless the residual warning was logged.
C1_SumOfAdjustments ==
    LoopDone =>
        \/ warned
        \/ Abs(SumSeq(Adjustments(distributed_rows)) - Delta) <= RESIDUAL_TOLERANCE

\* a group whose adjustments miss the delta by 0.01, without a warning
C1_Witness ==
    /\ LoopDone /\ ~warned
    /\ Abs(SumSeq(Adjustments(distributed_rows)) - Delta) = RESIDUAL_TOLERANCE
    /\ Len(group) >= 2

\* C2: no produced row has a negative corrected quantity, whatever the
\* strategy, the counted quantity and the original quantities.
C2_NonNegativeCorrected ==
    \A i \in 1..Len(distributed_rows) : distributed_rows[i].QUANTITE_CORRIGEE >= 0

\* C3: a positive delta goes wholly to the first line in policy order (FIFO:
\* smallest (lot date, lot id), undated last; LIFO: largest, undated first;
\* otherwise input order); every other line has adjustment 0 and keeps its
\* original quantity.
C3_SurplusOnFirstLine ==
    (LoopDone /\ Delta > 0) =>
        /\ InPolicyOrder(distributed_rows, group, strategy)
        /\ distributed_rows[1].AJUSTEMENT = Delta
        /\ distributed_rows[1].QUANTITE_CORRIGEE =
               distributed_rows[1].QUANTITE_ORIGINALE + Delta
        /\ \A i \in 2..Len(distributed_rows) :
               /\ distributed_rows[i].AJUSTEMENT = 0
               /\ distributed_rows[i].QUANTITE_CORRIGEE =
                      distributed_rows[i].QUANTITE_ORIGINALE

\* FIFO, an undated line read before two dated ones: the surplus goes to the
\* line with the earliest date, which was read last
C3_Witness ==
    /\ LoopDone /\ Delta > 0 /\ strategy = "FIFO"
    /\ Len(group) = 3
    /\ group[1].Date_Lot = NoDate
    /\ distributed_rows[1].original_s_line_raw = group[3].original_s_line_raw
    /\ distributed_rows[1].AJUSTEMENT = Delta

\* the lines 1..k of rows are emptied, line k+1 takes what is left of the
\* shortfall, the lines behind it are untouched
DrainedUpTo(rows, k, shortfall) ==
    /\ \A i \in 1..k :
           /\ rows[i].QUANTITE_CORRIGEE = 0
           /\ rows[i].AJUSTEMENT = -rows[i].QUANTITE_ORIGINALE
    /\ k < Len(rows) =>
           /\ rows[k + 1].AJUSTEMENT = shortfall + SumSeq(SubSeq(Originals(rows), 1, k))
           /\ rows[k + 1].QUANTITE_CORRIGEE =
                  rows[k + 1].QUANTITE_ORIGINALE + rows[k + 1].AJUSTEMENT
    /\ \A i \in (k + 2)..Len(rows) :
           /\ rows[i].AJUSTEMENT = 0
           /\ rows[i].QUANTITE_CORRIGEE = rows[i].QUANTITE_ORIGINALE

\* C4: a negative delta drains the lines front to back in policy order: a
\* prefix of lines is set to 0 with adjustment -original, at most one line is
\* reduced by the remaining shortfall, the later lines keep their quantity.
C4_ShortfallDrained ==
    (LoopDone /\ Delta < 0) =>
        /\ InPolicyOrder(distributed_rows, group, strategy)
        /\ \E k \in 0..Len(distributed_rows) : DrainedUpTo(distributed_rows, k, Delta)

\* LIFO on three lines: the first is emptied, the second partly reduced, the
\* third untouched, and the order is not the order of the input
C4_Witness ==
    /\ LoopDone /\ Delta < 0 /\ strategy = "LIFO"
    /\ Len(distributed_rows) = 3
    /\ distributed_rows[1].QUANTITE_ORIGINALE > 0
    /\ distributed_rows[1].QUANTITE_CORRIGEE = 0
    /\ distributed_rows[2].AJUSTEMENT < 0
    /\ distributed_rows[2].QUANTITE_CORRIGEE > 0
    /\ distributed_rows[3].QUANTITE_ORIGINALE > 0
    /\ distributed_rows[3].AJUSTEMENT = 0
    /\ RawLines(distributed_rows) # RawLines(group)

\* the order in which FIFO goes through the lines of the group
FifoOrder == RawLines(SortGroup(group, "FIFO"))

\* under LIFO the surplus is on the last line of the FIFO order, and the
\* lines are drained in the reverse of the FIFO order
LifoReversesFifo ==
    /\ Delta > 0 =>
           /\ distributed_rows[1].AJUSTEMENT = Delta
           /\ distributed_rows[1].original_s_line_raw = FifoOrder[Len(FifoOrder)]
    /\ Delta < 0 => RawLines(distributed_rows) = Reverse(FifoOrder)

DistinctLots(grp) ==
    \A i, j \in 1..Len(grp) : i # j => grp[i].NUMERO_LOT # grp[j].NUMERO_LOT

\* C5 as stated: on the same group, the line that receives a positive surplus
\* under LIFO is the last line of the FIFO order, and the LIFO drain order of
\* a shortfall is the exact reverse of the FIFO drain order.
C5_LifoReversesFifo ==
    (LoopDone /\ strategy = "LIFO") => LifoReversesFifo

\* C5 amended: the same, for a group whose lines have pairwise distinct lot
\* identifiers; lines with the same lot keep their input order under both
\* strategies.
C5_LifoReversesFifoDistinctLots ==
    (LoopDone /\ strategy = "LIFO" /\ DistinctLots(group)) => LifoReversesFifo

\* LIFO drains three lines of distinct lots, one undated and two of the same
\* date, in an order that is not the order of the input
C5_Witness ==
    /\ LoopDone /\ strategy = "LIFO" /\ DistinctLots(group) /\ Delta < 0
    /\ Len(group) = 3
    /\ \E i \in 1..3 : group[i].Date_Lot = NoDate
    /\ \E i, j \in 1..3 : i # j /\ group[i].Date_Lot = group[j].Date_Lot
    /\ distributed_rows[3].AJUSTEMENT < 0
    /\ RawLines(distributed_rows) # RawLines(group)
    /\ RawLines(distributed_rows) # Reverse(RawLines(group))

(***************************************************************************)
(* Properties of the session pipeline (specification Spec).                *)
(***************************************************************************)
\* the key of a template row, its counted quantity and its location
TemplateCells(rows) ==
    [i \in 1..Len(rows) |-> <<rows[i].Numero_Inventaire, rows[i].Code_Article,
                              rows[i].Quantite_Reelle, rows[i].Emplacements>>]

\* the theoretical cell holds the number zero
IsZeroNumber(cell) == cell.fmt # "bad" /\ cell.val = 0
\* the theoretical cell holds no number
IsNoNumber(cell) == cell.fmt = "bad"

\* C6 as stated: detect_lotecart_candidates returns exactly the rows of the
\* completed template whose theoretical quantity is exactly zero and whose
\* counted quantity is strictly positive.
C6_CandidatesExactlyZeroTheoretical ==
    discrepancies_df.present =>
        TemplateCells(detected) =
            TemplateCells(SelectSeq(completed_df.rows,
                                 LAMBDA r : /\ IsZeroNumber(r.Quantite_Theorique)
                                            /\ r.Quantite_Reelle > 0))

\* C6 amended: it returns exactly the rows whose theoretical cell is zero or
\* holds no number (an empty or unreadable cell is read as zero) and whose
\* counted quantity is strictly positive; a row counted 0 is never returned.
C6_CandidatesZeroOrBlankTheoretical ==
    discrepancies_df.present =>
        /\ TemplateCells(detected) =
               TemplateCells(SelectSeq(completed_df.rows,
                                    LAMBDA r : /\ \/ IsZeroNumber(r.Quantite_Theorique)
                                                  \/ IsNoNumber(r.Quantite_Theorique)
                                               /\ r.Quantite_Reelle > 0))
        /\ \A i \in 1..Len(detected) :
               detected[i].Quantite_Theorique = 0 /\ detected[i].Quantite_Reelle > 0

\* a template with a row of theoretical 0 counted 0, a row of non-zero
\* theoretical quantity counted above 0, and a candidate
C6_Witness ==
    /\ discrepancies_df.present
    /\ detected # <<>>
    /\ \E i \in 1..Len(completed_df.rows) :
           /\ IsZeroNumber(completed_df.rows[i].Quantite_Theorique)
           /\ completed_df.rows[i].Quantite_Reelle = 0
    /\ \E i \in 1..Len(completed_df.rows) :
           /\ ~IsZeroNumber(completed_df.rows[i].Quantite_Theorique)
           /\ ~IsNoNumber(completed_df.rows[i].Quantite_Theorique)
           /\ completed_df.rows[i].Quantite_Reelle > 0

\* generate_final_file has just written the final file
Generated == last_call = [op |-> "generate", ok |-> TRUE]
NbHeaders == Len(header_lines)
NbOriginal == Len(original_df.rows)
\* the output line at the place of the i-th original record
OutputLine(i) == final_file.rows[NbHeaders + i]
OriginalLine(i) == original_df.rows[i].original_s_line_raw
\* the lines behind those of the original records
AppendedLines == SubSeq(final_file.rows, NbHeaders + NbOriginal + 1, Len(final_file.rows))

ZeroAdjustments ==
    \A j \in 1..Len(distributed_df.rows) : distributed_df.rows[j].AJUSTEMENT = 0

\* C7: when every adjustment is zero, the regenerator gives back, for every
\* original stock line, the original quantity in field 5 and in field 6 and
\* the count indicator "1" in field 7.
C7_ZeroAdjustmentsReproduce ==
    (Generated /\ ZeroAdjustments) =>
        \A i \in 1..NbOriginal :
            /\ Field(OutputLine(i), COL_QUANTITE) = Field(OriginalLine(i), COL_QUANTITE)
            /\ ToNumeric(Field(OutputLine(i), COL_QUANTITE_REELLE)).value =
                   original_df.rows[i].QUANTITE
            /\ Field(OutputLine(i), COL_INDICATEUR_COMPTE) = "1"

\* the row of distributed_df that the regenerator finds for an original row:
\* the last one with its article, inventory and lot
LookedUp(original_row) ==
    LET hits == {j \in 1..Len(distributed_df.rows) :
                    /\ distributed_df.rows[j].CODE_ARTICLE = original_row.CODE_ARTICLE
                    /\ distributed_df.rows[j].NUMERO_INVENTAIRE =
                           original_row.NUMERO_INVENTAIRE
                    /\ distributed_df.rows[j].NUMERO_LOT = original_row.NUMERO_LOT}
    IN  IF hits = {} THEN <<>>
        ELSE <<distributed_df.rows[CHOOSE j \in hits : \A k \in hits : k <= j]>>

\* C8: for every replayed original line that has an adjustment, field 7 is
\* "2" if and only if the corrected quantity of the adjustment is zero, and
\* "1" otherwise; field 6 is the corrected quantity with a decimal comma.
C8_IndicatorAndCorrectedQuantity ==
    Generated =>
        \A i \in 1..NbOriginal :
            LookedUp(original_df.rows[i]) # <<>> =>
                LET corrigee == LookedUp(original_df.rows[i])[1].QUANTITE_CORRIGEE
                    field6 == Field(OutputLine(i), COL_QUANTITE_REELLE)
                    field7 == Field(OutputLine(i), COL_INDICATEUR_COMPTE)
                IN  /\ field7 \in {"1", "2"}
                    /\ field7 = "2" <=> corrigee = 0
                    /\ field6.fmt = "csv" /\ field6.val = corrigee

\* a final file with a line corrected to 0 and a line corrected to a quantity
\* with decimals that differs from its original quantity
C8_Witness ==
    /\ Generated
    /\ \E i \in 1..NbOriginal :
           /\ original_df.rows[i].QUANTITE # 0
           /\ Field(OutputLine(i), COL_INDICATEUR_COMPTE) = "2"
    /\ \E i \in 1..NbOriginal :
           /\ Field(OutputLine(i), COL_INDICATEUR_COMPTE) = "1"
           /\ Field(OutputLine(i), COL_QUANTITE_REELLE).val % 100 # 0
           /\ Field(OutputLine(i), COL_QUANTITE_REELLE).val # original_df.rows[i].QUANTITE

RECURSIVE MaxOf(_)
MaxOf(S) == IF S = {} THEN 0
            ELSE LET x == CHOOSE y \in S : TRUE IN Max(x, MaxOf(S \ {x}))

\* the largest rank of the S lines of the uploaded file
MaxOriginalRank ==
    MaxOf({Field(uploaded_file[i], COL_RANG) :
              i \in {j \in 1..Len(uploaded_file) : IsData(uploaded_file[j])}})

\* C9: the rank of the first new found-stock line is 1000 above the largest
\* rank of the original lines, and the rank of every further new line 1000
\* above the one before: no rank of a new line is one of another line.
C9_NewRanks ==
    Generated =>
        /\ \A j \in 1..Len(AppendedLines) :
               Field(AppendedLines[j], COL_RANG) = MaxOriginalRank + RANG_STEP * j
        /\ \A j \in 1..Len(AppendedLines) : \A i \in 1..NbOriginal :
               Field(AppendedLines[j], COL_RANG) > Field(OriginalLine(i), COL_RANG)

\* two new lines behind two original lines of which the first has the larger rank
C9_Witness ==
    /\ Generated
    /\ Len(AppendedLines) = 2
    /\ NbOriginal = 2
    /\ Field(OriginalLine(1), COL_RANG) > Field(OriginalLine(2), COL_RANG)

\* the fields of an S line that the regenerator never writes
KeptFields == (0..(EXPECTED_COLS - 1))
              \ {COL_QUANTITE_REELLE, COL_INDICATEUR_COMPTE, COL_EMPLACEMENT, COL_NUMERO_LOT}

\* the rows of distributed_df that ask for a new line, and those that update one
NewLineRows == SelectSeq(distributed_df.rows, LAMBDA r : r.is_new_lotecart = "True")
UpdateRows == SelectSeq(distributed_df.rows, LAMBDA r : r.is_existing_update = "True")

\* C10: the final file is the E and L lines of the input, unchanged and in
\* input order, then one line per original stock record in input order, then
\* one line per new-line found-stock adjustment; an update adjustment adds no
\* line and no original record is left out.
C10_OutputOrder ==
    Generated =>
        LET headers == SelectSeq(uploaded_file, IsHeader)
            records == SelectSeq(uploaded_file, IsData)
        IN  /\ Len(final_file.rows) = Len(headers) + Len(records) + Len(NewLineRows)
            /\ SubSeq(final_file.rows, 1, Len(headers)) = headers
            /\ \A i \in 1..Len(records) : \A f \in KeptFields :
                   Field(final_file.rows[Len(headers) + i], f) = Field(records[i], f)
            /\ \A j \in 1..Len(NewLineRows) :
                   LET line == final_file.rows[Len(headers) + Len(records) + j]
                   IN  /\ Field(line, 0) = "S"
                       /\ Field(line, COL_CODE_ARTICLE) = NewLineRows[j].CODE_ARTICLE
                       /\ Field(line, COL_NUMERO_LOT) = LOTECART

\* a file of two records with a header line between them, found stock that
\* updates the line of one article and adds a line for the other
C10_Witness ==
    /\ Generated
    /\ NbOriginal = 2
    /\ UpdateRows # <<>>
    /\ NewLineRows # <<>>
    /\ Len(final_file.rows) = NbHeaders + NbOriginal + Len(NewLineRows)

(***************************************************************************)
(* Frame of the regenerator.                                               *)
(***************************************************************************)
\* the S lines of the uploaded file, as uploaded
UploadedRecords == SelectSeq(uploaded_file, IsData)
\* the fields of an uploaded record that the regenerator may write
WrittenFields == {COL_QUANTITE_REELLE, COL_INDICATEUR_COMPTE, COL_EMPLACEMENT, COL_NUMERO_LOT}

\* C11: for every replayed original stock line, every field of the input
\* record other than 6, 7, 9 and 14 is unchanged at the same position of the
\* output line, the fields behind the columns of the schema included, and
\* field 5 is the input's field 5 with or without an adjustment.
C11_OtherFieldsUnchanged ==
    Generated =>
        \A i \in 1..Len(UploadedRecords) :
            /\ Len(OutputLine(i)) = Len(UploadedRecords[i])
            /\ \A f \in (0..(Len(UploadedRecords[i]) - 1)) \ WrittenFields :
                   /\ f < Len(OutputLine(i))
                   /\ Field(OutputLine(i), f) = Field(UploadedRecords[i], f)
            /\ Field(OutputLine(i), COL_QUANTITE) = Field(UploadedRecords[i], COL_QUANTITE)

(***************************************************************************)
(* A malformed record aborts the parse.                                    *)
(***************************************************************************)
HasShortLine(file) ==
    \E i \in 1..Len(file) : IsData(file[i]) /\ Len(file[i]) < EXPECTED_COLS

\* C12: when an S line of the uploaded file has fewer fields than the schema
\* requires, the parse fails as a whole, with no stock record and no header
\* returned; the session has no original table and its status is 'error'.
C12_ShortLineAbortsParse ==
    (status # "none" /\ HasShortLine(uploaded_file)) =>
        /\ ~ProcessCsvFile(uploaded_file).success
        /\ ProcessCsvFile(uploaded_file).data = <<>>
        /\ ProcessCsvFile(uploaded_file).headers = <<>>
        /\ ~original_df.present
        /\ header_lines = <<>>
        /\ status = "error"

\* a file whose second S line is short, behind a well-formed one and behind
\* header lines, has been uploaded
C12_Witness ==
    /\ status = "error"
    /\ HasShortLine(uploaded_file)
    /\ Len(SelectSeq(uploaded_file, IsData)) = 2
    /\ Len(SelectSeq(uploaded_file, IsData)[1]) = EXPECTED_COLS
    /\ SelectSeq(uploaded_file, IsHeader) # <<>>

(***************************************************************************)
(* Found stock: update before new line.                                    *)
(***************************************************************************)
\* the original records of the article and inventory of a candidate, and
\* those of them with a theoretical quantity of zero
ReferenceLinesOf(c) ==
    {i \in 1..Len(original_df.rows) :
        /\ original_df.rows[i].CODE_ARTICLE = c.Code_Article
        /\ original_df.rows[i].NUMERO_INVENTAIRE = c.Numero_Inventaire}
ZeroLinesOf(c) == {i \in ReferenceLinesOf(c) : original_df.rows[i].QUANTITE = 0}
MinOf(S) == CHOOSE x \in S : \A y \in S : x <= y

\* the candidates that have a reference line, and the found-stock rows of the
\* distribution
ServedCandidates ==
    SelectSeq(lotecart_candidates.rows, LAMBDA c : ReferenceLinesOf(c) # {})
FoundStockRows ==
    SelectSeq(distributed_df.rows,
              LAMBDA r : r.is_new_lotecart = "True" \/ r.is_existing_update = "True")

\* C13: every found-stock candidate whose article and inventory have an
\* original line of theoretical quantity zero gets exactly one adjustment,
\* flagged update, with the lot of that line and corrected quantity =
\* adjustment = counted quantity; a candidate with no such line but with a
\* reference line gets exactly one new-line adjustment with lot LOTECART and
\* corrected quantity = counted quantity; a candidate with neither gets none.
C13_UpdateBeforeNewLine ==
    (distributed_df.present /\ lotecart_candidates.present) =>
        /\ Len(FoundStockRows) = Len(ServedCandidates)
        /\ \A j \in 1..Len(ServedCandidates) :
               LET c == ServedCandidates[j]
                   a == FoundStockRows[j]
               IN  /\ a.CODE_ARTICLE = c.Code_Article
                   /\ a.NUMERO_INVENTAIRE = c.Numero_Inventaire
                   /\ a.QUANTITE_CORRIGEE = c.Quantite_Reelle
                   /\ a.AJUSTEMENT = c.Quantite_Reelle
                   /\ IF ZeroLinesOf(c) # {}
                      THEN /\ a.is_existing_update = "True"
                           /\ a.is_new_lotecart = "False"
                           /\ a.NUMERO_LOT =
                                  original_df.rows[MinOf(ZeroLinesOf(c))].NUMERO_LOT
                      ELSE /\ a.is_new_lotecart = "True"
                           /\ a.is_existing_update = "False"
                           /\ a.NUMERO_LOT = LOTECART

\* two candidates of one distribution: one updates a zero line whose lot is
\* not the sentinel, the other has a reference line only
C13_Witness ==
    /\ distributed_df.present
    /\ lotecart_candidates.present
    /\ \E j \in 1..Len(FoundStockRows) :
           /\ FoundStockRows[j].is_existing_update = "True"
           /\ FoundStockRows[j].NUMERO_LOT # LOTECART
    /\ \E j \in 1..Len(FoundStockRows) : FoundStockRows[j].is_new_lotecart = "True"

(***************************************************************************)
(* The lot identifier of the output lines.                                 *)
(***************************************************************************)
\* the original records that a found-stock update targets: for a candidate,
\* the first line of its article and inventory with theoretical quantity zero
UpdateTargets ==
    IF lotecart_candidates.present
    THEN {MinOf(ZeroLinesOf(lotecart_candidates.rows[k])) :
            k \in {n \in 1..Len(lotecart_candidates.rows) :
                      ZeroLinesOf(lotecart_candidates.rows[n]) # {}}}
    ELSE {}

\* C14: field 14 of an output line is LOTECART exactly for the found-stock
\* lines, which are the original line that a found-stock update targets and
\* every synthesized new line; every other replayed line keeps the lot
\* identifier of its input record in field 14.
C14_SentinelLotExactlyFoundStock ==
    Generated =>
        /\ \A i \in 1..NbOriginal :
               Field(OutputLine(i), COL_NUMERO_LOT) =
                   IF i \in UpdateTargets THEN LOTECART
                   ELSE Field(OriginalLine(i), COL_NUMERO_LOT)
        /\ \A j \in 1..Len(AppendedLines) :
               Field(AppendedLines[j], COL_NUMERO_LOT) = LOTECART

(***************************************************************************)
(* The location of the output lines.                                       *)
(***************************************************************************)
\* the completed template has, in every generated row, the location that
\* generate_template wrote there
LocationsUnedited ==
    LET aggregated == AggregateData(original_df.rows)
    IN  /\ Len(completed_df.rows) >= Len(aggregated)
        /\ \A i \in 1..Len(aggregated) :
               completed_df.rows[i].Emplacements = aggregated[i].EMPLACEMENT

\* C15: field 9 of a replayed line changes only when the user edited the
\* location cell of a template row of the line's article and inventory; when
\* the completed template comes back with its location cells unedited, every
\* output line has the location of its input record in field 9.
C15_UneditedLocationsKept ==
    (Generated /\ LocationsUnedited) =>
        \A i \in 1..NbOriginal :
            Field(OutputLine(i), COL_EMPLACEMENT) = Field(OriginalLine(i), COL_EMPLACEMENT)

(***************************************************************************)
(* Number formatting.                                                      *)
(***************************************************************************)
\* the number that the argument of a call gives, as a number or as a text
\* with either separator
NumericValue(value) ==
    IF value.type = "str"
    THEN ParseFloat(StrReplace(Strip(value.s), ",", "."))
    ELSE [ok |-> TRUE, value |-> value.f]
CsvNumberReturned == result.fn = "_to_csv_number" /\ arg.decimal_sep = ","
TwelveAndAHalf == <<"1", "2", ".", "5", "0", "0", "0", "0", "0">>

CountedQuantity == group[1].QUANTITE_REELLE_SAISIE_TOTALE
NonNegativeGroup ==
    /\ CountedQuantity >= 0
    /\ \A i \in 1..Len(group) : group[i].QUANTITE_ORIGINALE >= 0
CorrectedQuantities == [i \in 1..Len(distributed_rows) |-> distributed_rows[i].QUANTITE_CORRIGEE]

TemplateRowsOf(r) ==
    {k \in 1..Len(completed_df.rows) :
        /\ completed_df.rows[k].Code_Article = r.CODE_ARTICLE
        /\ completed_df.rows[k].Numero_Inventaire = r.NUMERO_INVENTAIRE}

\* C18: the discrepancy table has exactly one record per original stock
\* record, in the order of the original records; each has the theoretical
\* quantity of its record as original quantity, adjustment 0, corrected
\* quantity = original quantity, and as counted quantity the counted value
\* of the template for the record's article and inventory (that of the last
\* such row), or 0 when the template has no row for them.
C18_OneDiscrepancyPerRecord ==
    discrepancies_df.present =>
        /\ Len(discrepancies_df.rows) = NbOriginal
        /\ \A i \in 1..NbOriginal :
               LET d == discrepancies_df.rows[i]
                   r == original_df.rows[i]
               IN  /\ d.original_s_line_raw = r.original_s_line_raw
                   /\ d.CODE_ARTICLE = r.CODE_ARTICLE
                   /\ d.NUMERO_LOT = r.NUMERO_LOT
                   /\ d.QUANTITE_ORIGINALE = r.QUANTITE
                   /\ d.AJUSTEMENT = 0
                   /\ d.QUANTITE_CORRIGEE = d.QUANTITE_ORIGINALE
                   /\ d.QUANTITE_REELLE_SAISIE_TOTALE =
                          IF TemplateRowsOf(r) = {} THEN 0
                          ELSE completed_df.rows[MaxOf(TemplateRowsOf(r))].Quantite_Reelle

\* two records, one of an article with a counted row and one of an article
\* whose row is no longer in the template
C18_Witness ==
    /\ discrepancies_df.present
    /\ NbOriginal = 2
    /\ \E i, j \in 1..NbOriginal :
           /\ TemplateRowsOf(original_df.rows[i]) = {}
           /\ discrepancies_df.rows[i].QUANTITE_REELLE_SAISIE_TOTALE = 0
           /\ TemplateRowsOf(original_df.rows[j]) # {}
           /\ discrepancies_df.rows[j].QUANTITE_REELLE_SAISIE_TOTALE > 0

(***************************************************************************)
(* Lot classification.                                                     *)
(***************************************************************************)
LotClassified == result.fn = "_extract_date_from_lot"
\* the identifier as the classification reads it
LotText == IF arg.lot_number.na THEN <<>> ELSE Strip(arg.lot_number.s)
\* the type-1 shape: 15 characters, capitals and digits with six digits from
\* the sixth on; the type-2 shape: LOT and six digits
Type1Shape ==
    /\ ~arg.lot_number.na
    /\ Len(LotText) = 15
    /\ \A i \in 1..15 : IF i \in 6..11 THEN IsDigit(LotText[i])
                         ELSE IsUpperAlnum(LotText[i])
Type2Shape ==
    /\ ~arg.lot_number.na
    /\ Len(LotText) = 9
    /\ LotText[1] = "L" /\ LotText[2] = "O" /\ LotText[3] = "T"
    /\ \A i \in 4..9 : IsDigit(LotText[i])
SiteListed == SubSeq(LotText, 1, 5) \in PRIORITY1_SITE_CODES
DayOfLot == 10 * DigitValue(LotText[6]) + DigitValue(LotText[7])
MonthOfLot == 10 * DigitValue(LotText[8]) + DigitValue(LotText[9])

\* C19: a lot identifier is tagged type1 only if it has the type-1 shape and
\* its site code is in the allow-list; with the type-1 shape and a site code
\* that is not listed it is unknown and has no date; a type1 lot with a day
\* outside 1..31 or a month outside 1..12 is still type1 and has no date; an
\* identifier of the type-2 shape is type2 and has no date; anything else is
\* unknown.  So only type1 lots have a date.
C19_LotClassification ==
    LotClassified =>
        LET r == result.value
        IN  /\ r.type = "type1" <=> (Type1Shape /\ SiteListed)
            /\ (Type1Shape /\ ~SiteListed) =>
                   r = [date |-> NoDate, type |-> "unknown"]
            /\ (Type1Shape /\ SiteListed
                  /\ ~(DayOfLot \in 1..31 /\ MonthOfLot \in 1..12)) =>
                   r = [date |-> NoDate, type |-> "type1"]
            /\ Type2Shape => r = [date |-> NoDate, type |-> "type2"]
            /\ (~Type1Shape /\ ~Type2Shape) =>
                   r = [date |-> NoDate, type |-> "unknown"]
            /\ r.date # NoDate => r.type = "type1"

\* a lot of the type-1 shape with a site code that is not listed has been
\* classified unknown
C19_Witness ==
    /\ LotClassified
    /\ Type1Shape
    /\ ~SiteListed
    /\ DayOfLot \in 1..31 /\ MonthOfLot \in 1..12
    /\ result.value.type = "unknown"

(***************************************************************************)
(* Aggregator.                                                             *)
(***************************************************************************)
\* the aggregation key of a stock record and of an aggregated group:
\* article, status, location, zone, unit, inventory number
KeyOfRecord(r) ==
    [article |-> r.CODE_ARTICLE, status |-> r.STATUT, location |-> r.EMPLACEMENT,
     zone |-> r.ZONE_PK, unit |-> r.UNITE, inventory |-> r.NUMERO_INVENTAIRE]
Aggregated == AggregateData(original_df.rows)
RECURSIVE SumOver(_, _)
\* the sum of the theoretical quantities of the records of a set of positions
SumOver(records, positions) ==
    IF positions = {} THEN 0
    ELSE LET k == CHOOSE x \in positions : TRUE
         IN  records[k].QUANTITE + SumOver(records, positions \ {k})

\* C20: aggregate_data gives exactly one group per distinct aggregation key
\* of the stock records, and the theoretical total of a group is the sum of
\* the theoretical quantities of exactly the records with the key of the
\* group; the totals of the groups add up to the total of the records.
C20_OneGroupPerKey ==
    original_df.present =>
        LET records == original_df.rows
        IN  /\ \A i, j \in 1..Len(Aggregated) :
                   KeyOfRecord(Aggregated[i]) = KeyOfRecord(Aggregated[j]) => i = j
            /\ {KeyOfRecord(Aggregated[i]) : i \in 1..Len(Aggregated)} =
                   {KeyOfRecord(records[k]) : k \in 1..Len(records)}
            /\ \A i \in 1..Len(Aggregated) :
                   Aggregated[i].Quantite_Theorique_Totale =
                       SumOver(records, {k \in 1..Len(records) :
                                   KeyOfRecord(records[k]) = KeyOfRecord(Aggregated[i])})
            /\ SumSeq([i \in 1..Len(Aggregated) |->
                           Aggregated[i].Quantite_Theorique_Totale]) =
                   SumOver(records, 1..Len(records))

\* three records in two groups: two records share a key and a third differs
\* from them in the status only
C20_Witness ==
    /\ original_df.present
    /\ NbOriginal = 3
    /\ Len(Aggregated) = 2
    /\ \E i, j \in 1..2 :
           /\ Aggregated[i].STATUT # Aggregated[j].STATUT
           /\ Aggregated[i].CODE_ARTICLE = Aggregated[j].CODE_ARTICLE
           /\ Aggregated[i].EMPLACEMENT = Aggregated[j].EMPLACEMENT
           /\ Aggregated[i].Quantite_Theorique_Totale >
                  Aggregated[j].Quantite_Theorique_Totale


\* the order the groups are documented to have: priority rank ascending, then
\* minimum date ascending, a group without a date after the dated ones
NullsLastNotAfter(a, b) ==
    \/ a.priority < b.priority
    \/ /\ a.priority = b.priority
       /\ \/ b.Date_Min = NoDate
          \/ a.Date_Min # NoDate /\ a.Date_Min <= b.Date_Min

\* C21: the aggregated groups are sorted by priority rank ascending, then by
\* minimum lot date ascending, a group without a lot date sorting after every
\* dated group of the same priority rank.
C21_GroupsSortedNullsLast ==
    original_df.present =>
        \A i, j \in 1..Len(Aggregated) :
            i < j => NullsLastNotAfter(Aggregated[i], Aggregated[j])


(***************************************************************************)
(* The fields of a new found-stock line.                                   *)
(***************************************************************************)
\* the fields of a new line that differ from its reference line
NewLineFields == {COL_RANG, COL_QUANTITE, COL_QUANTITE_REELLE, COL_INDICATEUR_COMPTE,
                  COL_NUMERO_LOT}
\* the counted quantities of the candidates of an article and inventory
CountedOf(article, inventory) ==
    {lotecart_candidates.rows[k].Quantite_Reelle :
        k \in {n \in 1..Len(lotecart_candidates.rows) :
                  /\ lotecart_candidates.rows[n].Code_Article = article
                  /\ lotecart_candidates.rows[n].Numero_Inventaire = inventory}}

\* C22: every new found-stock line copies the fields of its reference line, an
\* original line of the article, except field 3 = the new rank, field 5 = "0",
\* field 6 = the counted quantity with a decimal comma, field 14 = LOTECART and
\* field 7 = "2" whatever the (positive) quantity.
C22_NewLineFields ==
    Generated =>
        /\ Len(AppendedLines) = Len(NewLineRows)
        /\ \A j \in 1..Len(AppendedLines) :
               LET line == AppendedLines[j]
                   adjustment == NewLineRows[j]
                   reference == adjustment.reference_line
               IN  /\ \E i \in 1..NbOriginal :
                          /\ original_df.rows[i].original_s_line_raw = reference
                          /\ original_df.rows[i].CODE_ARTICLE = adjustment.CODE_ARTICLE
                   /\ Len(line) = Len(reference)
                   /\ \A f \in (0..(Len(reference) - 1)) \ NewLineFields :
                          Field(line, f) = Field(reference, f)
                   /\ Field(line, COL_RANG) = MaxOriginalRank + RANG_STEP * j
                   /\ Field(line, COL_QUANTITE) = CsvText(0)
                   /\ adjustment.QUANTITE_CORRIGEE > 0
                   /\ adjustment.QUANTITE_CORRIGEE
                          \in CountedOf(adjustment.CODE_ARTICLE, adjustment.NUMERO_INVENTAIRE)
                   /\ Field(line, COL_QUANTITE_REELLE) = CsvText(adjustment.QUANTITE_CORRIGEE)
                   /\ Field(line, COL_INDICATEUR_COMPTE) = "2"
                   /\ Field(line, COL_NUMERO_LOT) = LOTECART

\* a new line for a counted quantity that is no whole number, from a reference
\* line with another lot and a quantity text of its own
C22_Witness ==
    /\ Generated
    /\ \E j \in 1..Len(AppendedLines) :
           /\ NewLineRows[j].QUANTITE_CORRIGEE % 100 # 0
           /\ Field(AppendedLines[j], COL_QUANTITE_REELLE)
                  = CsvText(NewLineRows[j].QUANTITE_CORRIGEE)
           /\ Field(NewLineRows[j].reference_line, COL_NUMERO_LOT) # LOTECART
           /\ Field(NewLineRows[j].reference_line, COL_QUANTITE) # CsvText(0)
           /\ Field(AppendedLines[j], COL_QUANTITE) = CsvText(0)


(***************************************************************************)
(* Stages without their upstream table.                                    *)
(***************************************************************************)
\* C23: a stage whose upstream table is absent fails and writes no output of
\* its own: process_completed_file without original_df saves no
\* discrepancies_df, distribute_discrepancies without discrepancies_df saves no
\* distributed_df, generate_final_file without distributed_df writes no file
\* and does not mark the session completed.
C23_AbsentUpstreamFails ==
    /\ (last_call.op = "process" /\ ~original_df.present) => ~last_call.ok
    /\ (last_call.op = "distribute" /\ ~discrepancies_df.present) => ~last_call.ok
    /\ (last_call.op = "generate" /\ ~distributed_df.present) => ~last_call.ok
    /\ ~original_df.present => ~discrepancies_df.present /\ ~lotecart_candidates.present
    /\ ~discrepancies_df.present => ~distributed_df.present
    /\ ~distributed_df.present => ~final_file.present /\ status # "completed"

\* after an upload that failed, a template was processed and the generation
\* was asked for: each call failed and no table behind completed_df exists
C23_Witness ==
    /\ status = "error"
    /\ ~original_df.present
    /\ completed_df.present
    /\ last_call = [op |-> "generate", ok |-> FALSE]
    /\ ~discrepancies_df.present
    /\ ~distributed_df.present
    /\ ~final_file.present


(***************************************************************************)
(* The original table of a session.                                        *)
(***************************************************************************)
\* C24: the original table of the session is written once, by the upload;
\* process_completed_file, distribute_discrepancies and generate_final_file
\* leave it as it is, however often and in whatever order they are called.
C24_OriginalWrittenOnce ==
    [][/\ last_call'.op \in {"process", "distribute", "generate"}
           => original_df' = original_df
       /\ original_df' # original_df
           => ~original_df.present /\ last_call'.op = "upload"]_vars

\* the three later stages have run and the table is still the one that the
\* upload parsed from a file of two records
C24_Witness ==
    /\ Generated
    /\ final_file.present
    /\ completed_df.present
    /\ original_df.present
    /\ NbOriginal = 2
    /\ original_df.rows = ProcessCsvFile(uploaded_file).data


(***************************************************************************)
(* The coerced quantities reported by an upload.                           *)
(***************************************************************************)
\* C25: the count of coerced quantities in the response of an upload is the
\* number of S lines of the uploaded file whose quantity text is no number; an
\* upload whose quantities all parse reports none, whatever was uploaded before.
C25_ReportedCountOfThisFile ==
    last_call = [op |-> "upload", ok |-> TRUE] =>
        invalid_cnt = InvalidQtyCount(uploaded_file)


(***************************************************************************)
(* The bookkeeping of the allocation loop.                                 *)
(***************************************************************************)
\* C26: every row the allocation loop has produced has corrected quantity =
\* original quantity + adjustment, and after each pass of the loop the
\* adjustments assigned so far plus the remaining delta are the group's delta.
C26_LoopBookkeeping ==
    /\ \A k \in 1..Len(distributed_rows) :
           distributed_rows[k].QUANTITE_CORRIGEE =
               distributed_rows[k].QUANTITE_ORIGINALE + distributed_rows[k].AJUSTEMENT
    /\ pc \in {"loop", "done"} =>
           SumSeq(Adjustments(distributed_rows)) + ecart_restant = Delta

\* in the middle of the loop on a group short by more than its first lot
\* holds: one lot emptied, delta left over, lots still to come
C26_Witness ==
    /\ pc = "loop"
    /\ Len(distributed_rows) = 1
    /\ Len(sorted_group) = 3
    /\ distributed_rows[1].QUANTITE_ORIGINALE > 0
    /\ distributed_rows[1].QUANTITE_CORRIGEE = 0
    /\ ecart_restant < 0
    /\ ecart_restant # Delta


(***************************************************************************)
(* Found stock in the final file.                                          *)
(***************************************************************************)
\* the S lines of the final file of an article and inventory
OutputLinesOf(article, inventory) ==
    SelectSeq(final_file.rows,
              LAMBDA l : /\ IsData(l)
                         /\ Field(l, COL_CODE_ARTICLE) = article
                         /\ Field(l, COL_NUMERO_INVENTAIRE) = inventory)
\* the sum of field 6 over the S lines of the final file of an article and
\* inventory
OutputQuantity(article, inventory) ==
    LET lines == OutputLinesOf(article, inventory)
    IN  SumSeq([i \in 1..Len(lines) |-> ToNumeric(Field(lines[i], COL_QUANTITE_REELLE)).value])

\* C27: found stock is applied once: for every found-stock candidate (article,
\* inventory) with counted quantity c, after distribution, found-stock
\* handling and regeneration, field 6 of the output lines of that article and
\* inventory adds up to c.
C27_FoundStockOnce ==
    (Generated /\ lotecart_candidates.present) =>
        \A k \in 1..Len(lotecart_candidates.rows) :
            LET candidate == lotecart_candidates.rows[k]
            IN  OutputQuantity(candidate.Code_Article, candidate.Numero_Inventaire)
                    = candidate.Quantite_Reelle


(***************************************************************************)
(* Found stock of an earlier processing pass.                              *)
(***************************************************************************)
\* C28: the found-stock adjustments of distribute_discrepancies come from the
\* template processed last: after a processing pass that detected no
\* candidate, the distribution adds no found-stock adjustment, whatever an
\* earlier pass of the session had detected.
C28_FoundStockOfLastTemplate ==
    (last_call = [op |-> "distribute", ok |-> TRUE] /\ detected = <<>>) =>
        FoundStockRows = <<>>


(***************************************************************************)
(* The corrected quantity of each replayed line.                           *)
(***************************************************************************)
\* the rows that the allocation loop produced for the i-th original line
AllocatedRowsOf(i) ==
    SelectSeq(distributed_df.rows,
              LAMBDA r : /\ r.is_new_lotecart # "True"
                         /\ r.is_existing_update # "True"
                         /\ r.original_s_line_raw = original_df.rows[i].original_s_line_raw)

\* C29: field 6 of each replayed line is the corrected quantity that the
\* distribution computed for that very original line (the target lines of a
\* found-stock update aside, which carry the counted quantity), also when
\* several original lines of an article and inventory carry the same lot
\* identifier.
C29_OwnCorrectedQuantity ==
    Generated =>
        \A i \in (1..NbOriginal) \ UpdateTargets :
            /\ Len(AllocatedRowsOf(i)) = 1
            /\ Field(OutputLine(i), COL_QUANTITE_REELLE) =
                   ToCsvNumber(AllocatedRowsOf(i)[1].QUANTITE_CORRIGEE)


(***************************************************************************)
(* The counted quantity of a distribution group.                           *)
(***************************************************************************)
\* the completed template has the generated rows and no other: row i is the
\* row of the i-th aggregated group
TemplateAsGenerated ==
    /\ Len(completed_df.rows) = Len(Aggregated)
    /\ \A i \in 1..Len(Aggregated) :
           /\ completed_df.rows[i].Code_Article = Aggregated[i].CODE_ARTICLE
           /\ completed_df.rows[i].Numero_Inventaire = Aggregated[i].NUMERO_INVENTAIRE
           /\ completed_df.rows[i].Emplacements = Aggregated[i].EMPLACEMENT

\* C30: the counted quantity that a distribution group is reconciled against
\* is the one the user entered in the template row of that same group (same
\* article, status, location, zone, unit, inventory), also when an article and
\* inventory spans several groups with different counted values.
C30_CountedOfOwnGroup ==
    (last_call = [op |-> "process", ok |-> TRUE] /\ TemplateAsGenerated) =>
        \A k \in 1..Len(discrepancies_df.rows) : \A i \in 1..Len(Aggregated) :
            KeyOfRecord(discrepancies_df.rows[k]) = KeyOfRecord(Aggregated[i])
                => discrepancies_df.rows[k].QUANTITE_REELLE_SAISIE_TOTALE
                       = completed_df.rows[i].Quantite_Reelle

=============================================================================
